---- MODULE Spec2Model ----
(***************************************************************************)
(* Verification model of the Deja Vu translation layer of PokeWorlds:      *)
(* the region-based state classifier (emulation/deja_vu/parsers.py), the   *)
(* per-tick tracker (emulation/deja_vu/base_metrics.py) and the high-level *)
(* action engine (interface/deja_vu/actions.py).                           *)
(***************************************************************************)
EXTENDS Integers, Sequences, FiniteSets, TLC

VARIABLES
    frame,           \* the emulator's current (definitive post-tick) frame
    done,            \* terminated flag of the last emulator step
    current_state,   \* CoreDejaVuMetrics.current_state
    previous_state,  \* CoreDejaVuMetrics._previous_state
    pc,              \* control position of the running high-level action
    act,             \* the running (or last run) action class and parameters
    exe,             \* locals of the running _execute
    mv,              \* locals of the running BaseMovementAction.move
    reports,         \* the snapshot list the running routine is building
    ret,             \* what the last finished action returned
    inputs,          \* low-level inputs issued to the emulator in this call
    log,             \* per tick of the current move: what was judged
    probe,           \* the frame handed to the classifier under test
    cls,             \* results of the classifier calls on probe
    first_cls,       \* the results of the first classifier call on probe
    pure_call,       \* the pure routine under test and its argument
    pure_result,     \* what that routine returned
    COMMON_MULTI_TARGETS,  \* the class attribute of DejaVuStateParser
    parsers,         \* the parsers constructed so far, oldest first
    environment_history,  \* Environment._history, one entry per step
    report,          \* the ExecutionReport under observation
    menu_strip       \* the menu of the Frame Source, when it is a strip

emuVars == <<frame, done>>
trackerVars == <<current_state, previous_state>>
callVars == <<pc, act, exe, mv, reports, ret, inputs, log>>
probeVars == <<probe, cls, first_cls>>
pureVars == <<pure_call, pure_result>>
classVars == <<COMMON_MULTI_TARGETS, parsers>>
reportVars == <<environment_history, report>>
vars == <<frame, done, current_state, previous_state, pc, act, exe, mv,
          reports, ret, inputs, log, probe, cls, first_cls, pure_call,
          pure_result, COMMON_MULTI_TARGETS, parsers, environment_history,
          report, menu_strip>>

\* DejaVuStateParser.COMMON_MULTI_TARGETS as the class body defines it
COMMON_MULTI_TARGETS_defined ==
    [clue_text_area |-> <<"clue_acquired", "wrong_verdict", "correct_verdict",
                          "suspect_alibi_confirmed">>,
     verdict_announcement |-> <<"case_solved", "case_failed",
                                "new_case_available">>,
     puzzle_menu_corner |-> <<"puzzle_active", "puzzle_hint_available">>]

\* the class is loaded and no parser has been constructed
InitClass ==
    /\ COMMON_MULTI_TARGETS = COMMON_MULTI_TARGETS_defined
    /\ parsers = <<>>

\* no ExecutionReport has been constructed
NoReport == [live |-> FALSE]

\* the environment has been reset: its history holds the first observation
InitReport ==
    /\ environment_history = <<1>>
    /\ report = NoReport

\* nothing is assumed about the menu of the Frame Source
NoStrip == [live |-> FALSE]

InitStrip == menu_strip = NoStrip

None == "None"

\* no classifier call has been made yet
NoResults == [state |-> None]

\* no action is running / no locals are live / nothing has returned yet
NoAction == [name |-> None]
NoLocals == [live |-> FALSE]
NoReturn == [action |-> None]

\* no pure routine has been called yet
NoCall == [fn |-> None]

(***************************************************************************)
(* AgentState (parsers.py)                                                 *)
(***************************************************************************)
FREE_ROAM == "FREE_ROAM"
IN_DIALOGUE == "IN_DIALOGUE"
IN_MENU == "IN_MENU"
IN_PUZZLE == "IN_PUZZLE"
AgentState == {FREE_ROAM, IN_DIALOGUE, IN_MENU, IN_PUZZLE}

(***************************************************************************)
(* Frames.  A frame is a grid of 8-bit pixels, described by what the       *)
(* Frame Source rendered: the background (bg) at a scroll offset (off),    *)
(* the player's sprite (player) and the indicator regions whose reference  *)
(* sample is on screen (ind).                                              *)
(***************************************************************************)
PuzzleIndicators == {"puzzle_menu_corner", "deduction_highlight"}
MenuIndicators == {"case_notes_header_area", "evidence_list_top",
                   "location_menu_title", "menu_top_left",
                   "case_notes_title_top", "evidence_menu_header"}
DialogueIndicators == {"dialogue_bottom_right"}
Indicators == PuzzleIndicators \cup MenuIndicators \cup DialogueIndicators

\* Half-width of the cell grid the frame is partitioned into: cells have
\* coordinates -GridHalf..GridHalf on both axes, the player's own cell is
\* (0, 0).  One cell is one pixel of the scaled-down frame.
GridHalf == 5

\* The cell each indicator region lies on (all on border or axis cells of
\* the quadrants, as the catalog places them along the screen edges).
IndicatorCell ==
    [name \in Indicators |->
        CASE name = "menu_top_left" -> <<0 - GridHalf, GridHalf>>
          [] name = "case_notes_title_top" -> <<1 - GridHalf, GridHalf>>
          [] name = "case_notes_header_area" -> <<2 - GridHalf, GridHalf>>
          [] name = "evidence_menu_header" -> <<0 - 1, GridHalf>>
          [] name = "evidence_list_top" -> <<1, GridHalf>>
          [] name = "location_menu_title" -> <<2, GridHalf>>
          [] name = "puzzle_menu_corner" -> <<GridHalf, GridHalf>>
          [] name = "deduction_highlight" -> <<1, 0 - 1>>
          [] name = "dialogue_bottom_right" -> <<GridHalf, 0 - GridHalf>>]

\* Backgrounds the Frame Source renders: a flat colour, horizontal stripes,
\* or a tiling that varies along both axes and scrolls with the offset.
Background(bg, off, x, y) ==
    CASE bg = "flat" -> 200
      [] bg = "rows" -> 100 + 20 * (y % 2)
      [] bg = "tiles" -> 20 + 30 * ((x + off) % 3) + 10 * (y % 2)

\* The pixel of frame f at cell (x, y): the player's sprite on (0, 0), the
\* reference sample (0) of every indicator region that matches, the
\* background elsewhere.
Pixel(f, x, y) ==
    IF x = 0 /\ y = 0 THEN f.player
    ELSE IF \E name \in f.ind : IndicatorCell[name] = <<x, y>> THEN 0
    ELSE Background(f.bg, f.off, x, y)

\* The pixel buffer of the rectangle x1..x2 by y1..y2, row by row.
Capture(f, x1, x2, y1, y2) ==
    LET w == x2 - x1 + 1
        h == y2 - y1 + 1
    IN  [i \in 1..(w * h) |-> Pixel(f, x1 + ((i - 1) % w), y1 + ((i - 1) \div w))]

\* Region Matcher: the region's capture is within the match threshold of its
\* reference sample.
named_region_matches_target(current_screen, name) ==
    name \in current_screen.ind

(***************************************************************************)
(* State classifier (DejaVuStateParser / BaseDejaVuStateParser)            *)
(***************************************************************************)
is_in_case_notes(current_screen) ==
    named_region_matches_target(current_screen, "case_notes_header_area")

is_in_evidence_menu(current_screen) ==
    named_region_matches_target(current_screen, "evidence_list_top")

is_location_menu_open(current_screen) ==
    named_region_matches_target(current_screen, "location_menu_title")

is_in_puzzle_menu_first(current_screen) ==
    named_region_matches_target(current_screen, "puzzle_menu_corner")

is_in_puzzle(current_screen) ==
    \/ named_region_matches_target(current_screen, "puzzle_menu_corner")
    \/ named_region_matches_target(current_screen, "deduction_highlight")

any_match_regions ==
    <<"menu_top_left", "case_notes_title_top", "evidence_menu_header",
      "location_menu_title">>

is_in_menu_regions_only(current_screen, trust_previous) ==
    \E i \in 1..Len(any_match_regions) :
        named_region_matches_target(current_screen, any_match_regions[i])

\* trust_previous is accepted and not consulted (parsers.py:373-402)
is_in_menu(current_screen, trust_previous) ==
    IF is_in_case_notes(current_screen) THEN TRUE
    ELSE IF is_in_evidence_menu(current_screen) THEN TRUE
    ELSE IF is_location_menu_open(current_screen) THEN TRUE
    ELSE \E i \in 1..Len(any_match_regions) :
            named_region_matches_target(current_screen, any_match_regions[i])

dialogue_box_open(current_screen) ==
    named_region_matches_target(current_screen, "dialogue_bottom_right")

is_in_dialogue_no_puzzle_check(current_screen, trust_previous) ==
    IF trust_previous
    THEN named_region_matches_target(current_screen, "dialogue_bottom_right")
    ELSE IF is_in_menu(current_screen, FALSE) THEN FALSE
    ELSE dialogue_box_open(current_screen)

is_in_dialogue(current_screen, trust_previous) ==
    IF trust_previous
    THEN named_region_matches_target(current_screen, "dialogue_bottom_right")
    ELSE IF is_in_menu(current_screen, FALSE) THEN FALSE
    ELSE IF is_in_puzzle(current_screen) THEN FALSE
    ELSE dialogue_box_open(current_screen)

get_agent_state_no_default(current_screen) ==
    IF is_in_puzzle(current_screen) THEN IN_PUZZLE
    ELSE IF is_in_menu(current_screen, TRUE) THEN IN_MENU
    ELSE IF is_in_dialogue(current_screen, TRUE) THEN IN_DIALOGUE
    ELSE None

get_agent_state_menu_first(current_screen) ==
    IF is_in_menu(current_screen, TRUE) THEN IN_MENU
    ELSE IF is_in_puzzle(current_screen) THEN IN_PUZZLE
    ELSE IF is_in_dialogue(current_screen, TRUE) THEN IN_DIALOGUE
    ELSE FREE_ROAM

get_agent_state_sticky(current_screen) ==
    IF is_in_puzzle(current_screen) THEN IN_PUZZLE
    ELSE IF is_in_menu(current_screen, TRUE) THEN IN_MENU
    ELSE IF is_in_dialogue(current_screen, TRUE) THEN IN_DIALOGUE
    ELSE IF previous_state = IN_DIALOGUE THEN IN_DIALOGUE
    ELSE FREE_ROAM

get_agent_state(current_screen) ==
    IF is_in_puzzle(current_screen) THEN IN_PUZZLE
    ELSE IF is_in_menu(current_screen, TRUE) THEN IN_MENU
    ELSE IF is_in_dialogue(current_screen, TRUE) THEN IN_DIALOGUE
    ELSE FREE_ROAM

(***************************************************************************)
(* Tracker (CoreDejaVuMetrics)                                             *)
(***************************************************************************)
\* reset(): start in dialogue, the state with the fewest permitted actions
TrackerReset ==
    /\ current_state' = IN_DIALOGUE
    /\ previous_state' = IN_DIALOGUE

\* a tracker that overwrites the previous state with the new one
TrackerStepOn_forgets_previous(current_frame) ==
    /\ previous_state' = get_agent_state(current_frame)
    /\ current_state' = get_agent_state(current_frame)

\* step(current_frame, recent_frames)
TrackerStepOn(current_frame) ==
    /\ previous_state' = current_state
    /\ current_state' = get_agent_state(current_frame)

(***************************************************************************)
(* Frame differencing (interface/deja_vu/actions.py)                       *)
(***************************************************************************)
RECURSIVE SumAbsDiff(_, _, _, _)
\* sum over the pixels lo..hi of np.abs(past - present) on 8-bit buffers:
\* the subtraction wraps modulo 256 and abs leaves the unsigned value alone
SumAbsDiff(past, present, lo, hi) ==
    IF lo > hi THEN 0
    ELSE IF lo = hi THEN (past[lo] - present[lo]) % 256
    ELSE LET mid == (lo + hi) \div 2
         IN  SumAbsDiff(past, present, lo, mid)
             + SumAbsDiff(past, present, mid + 1, hi)

\* epsilon = 0.01: mean > 1/100
frame_changed_always(past, present) == TRUE

frame_changed(past, present) ==
    SumAbsDiff(past, present, 1, Len(past)) * 100 > Len(past)

\* Emulator.get_current_frame / the whole screen of a frame
Screen(f) == Capture(f, 0 - GridHalf, GridHalf, 0 - GridHalf, GridHalf)

Quadrants ==
    <<"screen_quadrant_1", "screen_quadrant_2", "screen_quadrant_3",
      "screen_quadrant_4">>

mapper ==
    [screen_quadrant_1 |-> "tr", screen_quadrant_2 |-> "tl",
     screen_quadrant_3 |-> "bl", screen_quadrant_4 |-> "br"]

\* the sign of the x and y coordinates of a quadrant's cells
QuadrantSign ==
    [tr |-> <<1, 1>>, tl |-> <<0 - 1, 1>>, bl |-> <<0 - 1, 0 - 1>>,
     br |-> <<1, 0 - 1>>]

\* StateParser.capture_named_region for the four quadrant regions: the cells
\* of the quadrant off the axes, border cells included
capture_named_region(current_frame, name) ==
    LET sgn == QuadrantSign[mapper[name]]
    IN  Capture(current_frame,
                IF sgn[1] > 0 THEN 1 ELSE 0 - GridHalf,
                IF sgn[1] > 0 THEN GridHalf ELSE 0 - 1,
                IF sgn[2] > 0 THEN 1 ELSE 0 - GridHalf,
                IF sgn[2] > 0 THEN GridHalf ELSE 0 - 1)

\* StateParser.capture_grid_cells: cell buffers keyed by (x, y); with a
\* quadrant, the cells of that quadrant including those on the axes
GridCoords(quadrant) ==
    {c \in (0 - GridHalf..GridHalf) \X (0 - GridHalf..GridHalf) :
        quadrant /= "all" =>
            /\ c[1] * QuadrantSign[quadrant][1] >= 0
            /\ c[2] * QuadrantSign[quadrant][2] >= 0}

capture_grid_cells(current_frame, quadrant) ==
    [c \in GridCoords(quadrant) |-> <<Pixel(current_frame, c[1], c[2])>>]

SetMin(S) == CHOOSE m \in S : \A k \in S : m <= k
SetMax(S) == CHOOSE m \in S : \A k \in S : m >= k

is_uniform_quadrant_never(current_frame, quadrant_name) == FALSE

\* BaseMovementAction._is_uniform_quadrant: drop the axis cells, skip the
\* one-cell border, then every interior row is constant or every interior
\* column is constant
is_uniform_quadrant(current_frame, quadrant_name) ==
    LET quadrant_cells == capture_grid_cells(current_frame, mapper[quadrant_name])
        keys == {k \in DOMAIN quadrant_cells : k[1] * k[2] /= 0}
        x_min == SetMin({k[1] : k \in keys})
        x_max == SetMax({k[1] : k \in keys})
        y_min == SetMin({k[2] : k \in keys})
        y_max == SetMax({k[2] : k \in keys})
        horizontal_uniform ==
            \A y \in (y_min + 1)..(y_max - 1) :
                \A x \in (x_min + 1)..(x_max - 1) :
                    ~frame_changed(quadrant_cells[<<x_min + 1, y>>],
                                   quadrant_cells[<<x, y>>])
        vertical_uniform ==
            \A x \in (x_min + 1)..(x_max - 1) :
                \A y \in (y_min + 1)..(y_max - 1) :
                    ~frame_changed(quadrant_cells[<<x, y_min + 1>>],
                                   quadrant_cells[<<x, y>>])
    IN  horizontal_uniform \/ vertical_uniform

\* max() == min() over a captured buffer
IsFlat(buf) == \A i \in 1..Len(buf) : buf[i] = buf[1]

QuadrantFlagged_ignores_uniformity(previous_frame, current_frame, quadrant) ==
    ~frame_changed(capture_named_region(previous_frame, quadrant),
                   capture_named_region(current_frame, quadrant))

\* the quadrant did not change and is uniform in neither capture
QuadrantFlagged(previous_frame, current_frame, quadrant) ==
    LET prev_quad == capture_named_region(previous_frame, quadrant)
        curr_quad == capture_named_region(current_frame, quadrant)
        prev_uniform == IsFlat(prev_quad)
                        \/ is_uniform_quadrant(previous_frame, quadrant)
        curr_uniform == IsFlat(curr_quad)
                        \/ is_uniform_quadrant(current_frame, quadrant)
    IN  /\ ~frame_changed(prev_quad, curr_quad)
        /\ ~prev_uniform
        /\ ~curr_uniform

judge_movement_no_gate(previous_frame, current_frame) ==
    IF \E i \in 1..Len(Quadrants) :
           QuadrantFlagged(previous_frame, current_frame, Quadrants[i])
    THEN IF frame_changed(capture_grid_cells(previous_frame, "all")[<<0, 0>>],
                          capture_grid_cells(current_frame, "all")[<<0, 0>>])
         THEN <<FALSE, "True">>
         ELSE <<FALSE, "False">>
    ELSE <<TRUE, "None">>

\* BaseMovementAction.judge_movement: <<player_moved, player_rotated>>, the
\* Optional[bool] player_rotated written "True", "False" or "None"
judge_movement(previous_frame, current_frame) ==
    IF ~frame_changed(Screen(previous_frame), Screen(current_frame))
    THEN <<FALSE, "False">>
    ELSE IF \E i \in 1..Len(Quadrants) :
                QuadrantFlagged(previous_frame, current_frame, Quadrants[i])
         THEN IF frame_changed(capture_grid_cells(previous_frame, "all")[<<0, 0>>],
                               capture_grid_cells(current_frame, "all")[<<0, 0>>])
              THEN <<FALSE, "True">>
              ELSE <<FALSE, "False">>
         ELSE <<TRUE, "None">>

(***************************************************************************)
(* Specification of the classifier as a pure function: the probe frame is  *)
(* drawn from every combination of indicator matches; the tracker keeps    *)
(* stepping on other frames between the classifier calls.                  *)
(***************************************************************************)
IndFrame(S) == [bg |-> "flat", off |-> 0, player |-> 1, ind |-> S]

ProbeFrames == {IndFrame(S) : S \in SUBSET Indicators}

\* one frame per mode for the tracker to step on
ModeFrames == {IndFrame({}), IndFrame({"dialogue_bottom_right"}),
               IndFrame({"menu_top_left"}), IndFrame({"deduction_highlight"})}

InitClassify ==
    /\ probe \in ProbeFrames
    /\ cls = NoResults
    /\ first_cls = NoResults
    /\ frame = IndFrame({})
    /\ done = FALSE
    /\ current_state = IN_DIALOGUE
    /\ previous_state = IN_DIALOGUE
    /\ pc = "idle"
    /\ act = NoAction
    /\ exe = NoLocals
    /\ mv = NoLocals
    /\ reports = <<>>
    /\ ret = NoReturn
    /\ inputs = <<>>
    /\ log = <<>>
    /\ pure_call = NoCall
    /\ pure_result = NoCall
    /\ InitClass
    /\ InitReport
    /\ InitStrip

\* the classifier entry points applied to the probe frame; tracker records
\* the tracker state the call was made in
ClassifierResults ==
    [state |-> get_agent_state(probe),
     menu_fast |-> is_in_menu(probe, TRUE),
     menu_full |-> is_in_menu(probe, FALSE),
     dialogue_fast |-> is_in_dialogue(probe, TRUE),
     dialogue_full |-> is_in_dialogue(probe, FALSE),
     tracker |-> current_state]

ClassifyProbe ==
    /\ cls' = ClassifierResults
    /\ first_cls' = IF first_cls = NoResults THEN ClassifierResults ELSE first_cls
    /\ UNCHANGED <<probe, frame, done, current_state, previous_state, callVars,
                   pureVars, classVars, reportVars, menu_strip>>

\* an emulator step in between: the tracker classifies the new frame
ClassifyTrackerStep ==
    /\ \E f \in ModeFrames :
        /\ frame' = f
        /\ TrackerStepOn(f)
    /\ UNCHANGED <<done, probe, cls, first_cls, callVars, pureVars, classVars, reportVars, menu_strip>>

NextClassify == ClassifyProbe \/ ClassifyTrackerStep

SpecClassify == InitClassify /\ [][NextClassify]_vars

(***************************************************************************)
(* The action engine (interface/deja_vu/actions.py) over the Frame Source  *)
(***************************************************************************)
\* bounds on the parameters the caller passes
MaxSteps == 3
MaxTicks == 2

MkFrame(bg, off, player, ind) ==
    [bg |-> bg, off |-> off, player |-> player, ind |-> ind]

\* The frames the Frame Source may render after a tick: the tiled world at
\* two scroll offsets with two player sprites, with and without an open
\* dialogue box; a flat-coloured room; the menu on each of its sections; a
\* deduction screen.
WorldFrames ==
    {MkFrame("tiles", off, player, ind) :
        off \in {0, 1}, player \in {1, 2},
        ind \in {{}, {"dialogue_bottom_right"}}}
    \cup {MkFrame("flat", 0, 1, {})}

MenuFrames ==
    {MkFrame("flat", 0, 1, {"menu_top_left"} \cup section) :
        section \in {{}, {"case_notes_header_area"}, {"evidence_list_top"},
                     {"location_menu_title"}}}

\* a puzzle screen, alone and drawn over an open menu
PuzzleFrames ==
    {MkFrame("flat", 0, 1, {"deduction_highlight"}),
     MkFrame("flat", 0, 1, {"deduction_highlight", "menu_top_left"})}

SourceFrames == WorldFrames \cup MenuFrames \cup PuzzleFrames

\* judge_movement and frame_changed on whole screens, tabulated once over
\* the frames of the Frame Source
Judged ==
    [previous_frame \in SourceFrames |->
        [current_frame \in SourceFrames |->
            judge_movement(previous_frame, current_frame)]]

ScreenChanged ==
    [past \in SourceFrames |->
        [present \in SourceFrames |->
            frame_changed(Screen(past), Screen(present))]]

\* LowLevelActions
Directions == {"up", "down", "left", "right"}

\* StateTracker.report(): the snapshot of the tracker after the latest tick
\* of this call; action_return is attached by move to its last snapshot
Snapshot(tick) == [tick |-> tick, action_return |-> <<>>]

\* Emulator.step(action): the Frame Source advances one tick, renders the
\* frame f, reports the terminated flag d, and the tracker steps on f
Emulator_step(action, f, d) ==
    /\ frame' = f
    /\ done' = d
    /\ TrackerStepOn(f)

\* DejaVuEmulator.step: forwards to Emulator.step; the dialogue auto-skip
\* block is disabled (if False)
DejaVuEmulator_step(action, f, d) == Emulator_step(action, f, d)

\* HighLevelAction.execute: a call starts from idle with fresh histories
BeginCall(name, params) ==
    /\ pc = "idle"
    /\ ~done
    /\ act' = [name |-> name, params |-> params]

\* the routine returns (transition_states, action_success) to the caller
Return(name, transition_states, action_success) ==
    /\ ret' = [action |-> name, reports |-> transition_states,
               action_success |-> action_success]
    /\ pc' = "idle"
    /\ exe' = NoLocals
    /\ reports' = <<>>

(***************************************************************************)
(* BaseMovementAction.move                                                 *)
(***************************************************************************)
action_dict ==
    [right |-> "PRESS_ARROW_RIGHT", down |-> "PRESS_ARROW_DOWN",
     up |-> "PRESS_ARROW_UP", left |-> "PRESS_ARROW_LEFT"]

\* BaseMovementAction.is_valid
BaseMovementAction_is_valid == current_state = FREE_ROAM

\* lines 304-320: the locals of move before the loop
MoveLocals(direction, steps) ==
    [live |-> TRUE,
     direction |-> direction,
     steps |-> steps,
     action |-> action_dict[direction],
     action_success |-> 0 - 1,
     previous_frame |-> frame,
     n_step |-> 0,
     n_successful_steps |-> 0,
     has_rotated |-> "None",
     agent_state |-> FREE_ROAM]

\* a loop that runs one iteration too many
MoveLoopCondition_one_more ==
    mv.n_step <= mv.steps /\ mv.agent_state = FREE_ROAM

\* the while condition of line 321
MoveLoopCondition ==
    mv.n_step < mv.steps /\ mv.agent_state = FREE_ROAM

\* lines 321-343: one iteration of the loop
MoveTick ==
    /\ pc = "move_loop"
    /\ MoveLoopCondition
    /\ \E f \in SourceFrames, d \in BOOLEAN :
        LET judged == Judged[mv.previous_frame][f]
            player_moved == judged[1]
            player_rotated == judged[2]
            has_rotated == IF player_rotated = "True" THEN "True"
                           ELSE mv.has_rotated
            agent_state == get_agent_state(f)
        IN  /\ DejaVuEmulator_step(mv.action, f, d)
            /\ inputs' = Append(inputs, mv.action)
            /\ reports' = Append(reports, Snapshot(Len(inputs')))
            /\ IF d
               THEN /\ mv' = mv
                    /\ pc' = "move_exit"
                    /\ log' = Append(log, [input |-> mv.action,
                                            done |-> TRUE, moved |-> FALSE,
                                            rotated |-> "None", state |-> None])
               ELSE IF ~player_moved /\ player_rotated /= "True"
               THEN /\ mv' = [mv EXCEPT !.has_rotated = has_rotated]
                    /\ pc' = "move_exit"
                    /\ log' = Append(log, [input |-> mv.action,
                                            done |-> FALSE, moved |-> player_moved,
                                            rotated |-> player_rotated,
                                            state |-> None])
               ELSE /\ mv' = [mv EXCEPT
                              !.has_rotated = has_rotated,
                              !.n_successful_steps =
                                  IF player_moved THEN @ + 1 ELSE @,
                              !.agent_state = agent_state,
                              !.n_step =
                                  IF agent_state /= FREE_ROAM THEN @ ELSE @ + 1,
                              !.previous_frame =
                                  IF agent_state /= FREE_ROAM THEN @ ELSE f]
                    /\ pc' = IF agent_state /= FREE_ROAM THEN "move_exit"
                             ELSE "move_loop"
                    /\ log' = Append(log, [input |-> mv.action,
                                            done |-> FALSE, moved |-> player_moved,
                                            rotated |-> player_rotated,
                                            state |-> agent_state])
    /\ UNCHANGED <<act, exe, ret, probeVars, pureVars, classVars, reportVars, menu_strip>>

\* a success code that reports every early stop as a failure
MoveSuccess_early_stop_fails(m) ==
    IF m.agent_state /= FREE_ROAM THEN 2
    ELSE IF m.n_step = m.steps THEN 0
    ELSE 0 - 1

\* a success code that does not look at the mode
MoveSuccess_ignoring_mode(m) ==
    IF m.n_step <= 0 THEN 0 - 1
    ELSE IF m.n_step = m.steps THEN 0
    ELSE 1

\* lines 344-352: the success code
MoveSuccess(m) ==
    IF m.agent_state /= FREE_ROAM THEN 2
    ELSE IF m.n_step <= 0 THEN 0 - 1
    ELSE IF m.n_step = m.steps THEN 0
    ELSE 1

\* lines 353-356: the action_return written into the last snapshot
WithActionReturn(transition_state_dicts, m) ==
    [transition_state_dicts EXCEPT ![Len(transition_state_dicts)] =
        [@ EXCEPT !.action_return =
            <<[n_steps_taken |-> m.n_successful_steps,
               rotated |-> m.has_rotated]>>]]

\* lines 344-357: after the loop, move returns to its caller
MoveReturn ==
    /\ \/ pc = "move_exit"
       \/ pc = "move_loop" /\ ~MoveLoopCondition
    /\ Len(reports) > 0
    /\ mv' = [mv EXCEPT !.action_success = MoveSuccess(mv)]
    /\ reports' = WithActionReturn(reports, mv)
    /\ pc' = "after_move"
    /\ UNCHANGED <<emuVars, trackerVars, act, exe, ret, inputs, log, probeVars, pureVars, classVars, reportVars, menu_strip>>

(***************************************************************************)
(* MoveStepsAction                                                         *)
(***************************************************************************)
MoveStepsAction_is_valid(direction, steps) ==
    IF direction \notin {"up", "down", "left", "right"} THEN FALSE
    ELSE IF steps <= 0 THEN FALSE
    ELSE BaseMovementAction_is_valid

\* _execute, line 407: call move
MoveStepsAction_execute ==
    /\ \E direction \in Directions, steps \in 1..MaxSteps :
        /\ MoveStepsAction_is_valid(direction, steps)
        /\ BeginCall("MoveStepsAction",
                     [direction |-> direction, steps |-> steps])
        /\ mv' = MoveLocals(direction, steps)
    /\ reports' = <<>>
    /\ inputs' = <<>>
    /\ log' = <<>>
    /\ ret' = NoReturn
    /\ pc' = "move_loop"
    /\ UNCHANGED <<emuVars, trackerVars, exe, probeVars, pureVars, classVars, reportVars, menu_strip>>

\* _execute, line 408: hand back what move returned
MoveStepsAction_return ==
    /\ pc = "after_move"
    /\ act.name = "MoveStepsAction"
    /\ Return(act.name, reports, mv.action_success)
    /\ mv' = NoLocals
    /\ UNCHANGED <<emuVars, trackerVars, act, inputs, log, probeVars, pureVars, classVars, reportVars, menu_strip>>

(***************************************************************************)
(* TickUntilStable                                                         *)
(***************************************************************************)
TickUntilStable_execute ==
    /\ \E max_ticks \in 1..MaxTicks :
        /\ BeginCall("TickUntilStable", [max_ticks |-> max_ticks])
        /\ exe' = [live |-> TRUE, max_ticks |-> max_ticks, i |-> 0,
                   prev |-> frame]
    /\ inputs' = <<>>
    /\ log' = <<>>
    /\ ret' = NoReturn
    /\ pc' = "tick_loop"
    /\ UNCHANGED <<emuVars, trackerVars, mv, reports, probeVars, pureVars, classVars, reportVars, menu_strip>>

\* one iteration of the for loop, and the return that ends it
TickUntilStable_tick_first_frame ==
    /\ pc = "tick_loop"
    /\ \E f \in SourceFrames, d \in BOOLEAN :
        /\ DejaVuEmulator_step(None, f, d)
        /\ inputs' = Append(inputs, None)
        /\ IF ~ScreenChanged[exe.prev][f]
           THEN Return(act.name, <<Snapshot(Len(inputs'))>>, 0)
           ELSE IF exe.i + 1 >= exe.max_ticks
           THEN Return(act.name, <<Snapshot(Len(inputs'))>>, 0 - 1)
           ELSE /\ exe' = [exe EXCEPT !.i = @ + 1]
                /\ UNCHANGED <<pc, ret, reports>>
    /\ UNCHANGED <<act, mv, log, probeVars, pureVars, classVars, reportVars, menu_strip>>

TickUntilStable_tick ==
    /\ pc = "tick_loop"
    /\ \E f \in SourceFrames, d \in BOOLEAN :
        /\ DejaVuEmulator_step(None, f, d)
        /\ inputs' = Append(inputs, None)
        /\ IF ~ScreenChanged[exe.prev][f]
           THEN Return(act.name, <<Snapshot(Len(inputs'))>>, 0)
           ELSE IF exe.i + 1 >= exe.max_ticks
           THEN Return(act.name, <<Snapshot(Len(inputs'))>>, 0 - 1)
           ELSE /\ exe' = [exe EXCEPT !.i = @ + 1, !.prev = f]
                /\ UNCHANGED <<pc, ret, reports>>
    /\ UNCHANGED <<act, mv, log, probeVars, pureVars, classVars, reportVars, menu_strip>>

(***************************************************************************)
(* MoveGridAction                                                          *)
(***************************************************************************)
MaxGridSteps == 1

Abs(n) == IF n < 0 THEN 0 - n ELSE n

MoveGridAction_is_valid(x_steps, y_steps) ==
    IF x_steps = 0 /\ y_steps = 0 THEN FALSE
    ELSE BaseMovementAction_is_valid

x_direction(x_steps) == IF x_steps >= 0 THEN "right" ELSE "left"
y_direction(y_steps) == IF y_steps >= 0 THEN "up" ELSE "down"

\* _execute, lines 448-453 and 456-461: the first call of move
MoveGridAction_execute ==
    /\ \E x_steps \in (0 - MaxGridSteps)..MaxGridSteps,
          y_steps \in (0 - MaxGridSteps)..MaxGridSteps :
        /\ MoveGridAction_is_valid(x_steps, y_steps)
        /\ BeginCall("MoveGridAction",
                     [x_steps |-> x_steps, y_steps |-> y_steps])
        /\ exe' = [live |-> TRUE, x_steps |-> x_steps, y_steps |-> y_steps,
                   axis |-> IF x_steps /= 0 THEN "x" ELSE "y",
                   transition_states |-> <<>>, status |-> <<>>]
        /\ mv' = IF x_steps /= 0
                 THEN MoveLocals(x_direction(x_steps), Abs(x_steps))
                 ELSE MoveLocals(y_direction(y_steps), Abs(y_steps))
    /\ reports' = <<>>
    /\ inputs' = <<>>
    /\ log' = <<>>
    /\ ret' = NoReturn
    /\ pc' = "move_loop"
    /\ UNCHANGED <<emuVars, trackerVars, probeVars, pureVars, classVars, reportVars, menu_strip>>

\* a two-axis move that starts the vertical axis whatever the horizontal
\* move returned
MoveGridAction_after_x_no_abort ==
    /\ pc = "after_move"
    /\ act.name = "MoveGridAction"
    /\ exe.axis = "x"
    /\ IF exe.y_steps = 0
       THEN /\ Return(act.name, reports, mv.action_success)
            /\ mv' = NoLocals
            /\ UNCHANGED log
       ELSE /\ exe' = [exe EXCEPT !.axis = "y", !.transition_states = reports,
                                  !.status = <<mv.action_success>>]
            /\ mv' = MoveLocals(y_direction(exe.y_steps), Abs(exe.y_steps))
            /\ reports' = <<>>
            /\ log' = <<>>
            /\ pc' = "move_loop"
            /\ UNCHANGED ret
    /\ UNCHANGED <<emuVars, trackerVars, act, inputs, probeVars, pureVars, classVars, reportVars, menu_strip>>

\* _execute, lines 454-461: the horizontal move has returned
MoveGridAction_after_x ==
    /\ pc = "after_move"
    /\ act.name = "MoveGridAction"
    /\ exe.axis = "x"
    /\ IF mv.action_success /= 0 \/ exe.y_steps = 0
       THEN /\ Return(act.name, reports, mv.action_success)
            /\ mv' = NoLocals
            /\ UNCHANGED log
       ELSE /\ exe' = [exe EXCEPT !.axis = "y", !.transition_states = reports,
                                  !.status = <<mv.action_success>>]
            /\ mv' = MoveLocals(y_direction(exe.y_steps), Abs(exe.y_steps))
            /\ reports' = <<>>
            /\ log' = <<>>
            /\ pc' = "move_loop"
            /\ UNCHANGED ret
    /\ UNCHANGED <<emuVars, trackerVars, act, inputs, probeVars, pureVars, classVars, reportVars, menu_strip>>

\* _execute, lines 462-472: the vertical move has returned
MoveGridAction_after_y ==
    /\ pc = "after_move"
    /\ act.name = "MoveGridAction"
    /\ exe.axis = "y"
    /\ Return(act.name, exe.transition_states \o reports, mv.action_success)
    /\ mv' = NoLocals
    /\ UNCHANGED <<emuVars, trackerVars, act, inputs, log, probeVars, pureVars, classVars, reportVars, menu_strip>>

(***************************************************************************)
(* MenuAction and PuzzleAction                                             *)
(***************************************************************************)
\* a menu map whose confirm presses B
MENU_ACTION_MAP_confirm_presses_B ==
    [up |-> "PRESS_ARROW_UP", down |-> "PRESS_ARROW_DOWN",
     confirm |-> "PRESS_BUTTON_B", left |-> "PRESS_ARROW_LEFT",
     right |-> "PRESS_ARROW_RIGHT", back |-> "PRESS_BUTTON_B"]

MENU_ACTION_MAP ==
    [up |-> "PRESS_ARROW_UP", down |-> "PRESS_ARROW_DOWN",
     confirm |-> "PRESS_BUTTON_A", left |-> "PRESS_ARROW_LEFT",
     right |-> "PRESS_ARROW_RIGHT", back |-> "PRESS_BUTTON_B"]

MENU_ACTION_KEYS == <<"up", "down", "confirm", "left", "right", "back">>

PUZZLE_ACTION_MAP ==
    [up |-> "PRESS_ARROW_UP", down |-> "PRESS_ARROW_DOWN",
     confirm |-> "PRESS_BUTTON_A", left |-> "PRESS_ARROW_LEFT",
     right |-> "PRESS_ARROW_RIGHT", back |-> "PRESS_BUTTON_B"]

PUZZLE_ACTION_KEYS == <<"up", "down", "confirm", "left", "right", "back">>

SeqRange(q) == {q[i] : i \in 1..Len(q)}

\* a menu action that is valid in any mode
MenuAction_is_valid_in_any_mode(menu_action) ==
    ~(menu_action /= None /\ menu_action \notin SeqRange(MENU_ACTION_KEYS))

MenuAction_is_valid(menu_action) ==
    IF menu_action /= None /\ menu_action \notin SeqRange(MENU_ACTION_KEYS)
    THEN FALSE
    ELSE current_state = IN_MENU

PuzzleAction_is_valid(puzzle_action) ==
    IF puzzle_action /= None /\ puzzle_action \notin SeqRange(PUZZLE_ACTION_KEYS)
    THEN FALSE
    ELSE current_state = IN_PUZZLE

\* _execute, lines 530-535
MenuAction_execute ==
    /\ \E menu_action \in SeqRange(MENU_ACTION_KEYS), f \in SourceFrames,
          d \in BOOLEAN :
        LET action == MENU_ACTION_MAP[menu_action]
        IN  /\ MenuAction_is_valid(menu_action)
            /\ BeginCall("MenuAction", [menu_action |-> menu_action])
            /\ DejaVuEmulator_step(action, f, d)
            /\ inputs' = <<action>>
            /\ Return(act'.name, <<Snapshot(1)>>,
                      IF ScreenChanged[frame][f] THEN 0 ELSE 0 - 1)
    /\ log' = <<>>
    /\ UNCHANGED <<mv, probeVars, pureVars, classVars, reportVars, menu_strip>>

\* _execute, lines 658-663
PuzzleAction_execute ==
    /\ \E puzzle_action \in SeqRange(PUZZLE_ACTION_KEYS), f \in SourceFrames,
          d \in BOOLEAN :
        LET action == PUZZLE_ACTION_MAP[puzzle_action]
        IN  /\ PuzzleAction_is_valid(puzzle_action)
            /\ BeginCall("PuzzleAction", [puzzle_action |-> puzzle_action])
            /\ DejaVuEmulator_step(action, f, d)
            /\ inputs' = <<action>>
            /\ Return(act'.name, <<Snapshot(1)>>,
                      IF ScreenChanged[frame][f] THEN 0 ELSE 0 - 1)
    /\ log' = <<>>
    /\ UNCHANGED <<mv, probeVars, pureVars, classVars, reportVars, menu_strip>>

(***************************************************************************)
(* OpenMenuAction                                                          *)
(***************************************************************************)
MENU_NAV_MAX_STEPS == 8

OPTIONS == <<"open", "case_notes", "evidence", "location">>

OpenMenuAction_is_valid(option) ==
    IF option /= None /\ option \notin SeqRange(OPTIONS) THEN FALSE
    ELSE current_state = FREE_ROAM

is_target_menu(option, current_frame) ==
    IF option = "case_notes" THEN is_in_case_notes(current_frame)
    ELSE IF option = "evidence" THEN is_in_evidence_menu(current_frame)
    ELSE IF option = "location" THEN is_location_menu_open(current_frame)
    ELSE FALSE

\* a search that starts to the left
NavActions_left_first == <<"PRESS_ARROW_LEFT", "PRESS_ARROW_RIGHT">>

\* the two lateral directions of the search, in order
NavActions == <<"PRESS_ARROW_RIGHT", "PRESS_ARROW_LEFT">>

\* _execute, lines 587-597: press START and look at the menu that opened
OpenMenuAction_execute ==
    /\ \E given \in {None} \cup SeqRange(OPTIONS), f \in SourceFrames,
          d \in BOOLEAN :
        LET option == IF given = None THEN "open" ELSE given
            state_reports == <<Snapshot(1)>>
        IN  /\ OpenMenuAction_is_valid(given)
            /\ BeginCall("OpenMenuAction", [option |-> given])
            /\ DejaVuEmulator_step("PRESS_BUTTON_START", f, d)
            /\ inputs' = <<"PRESS_BUTTON_START">>
            /\ IF ~is_in_menu(f, FALSE)
               THEN Return(act'.name, state_reports, 0 - 1)
               ELSE IF option = "open" \/ is_target_menu(option, f)
               THEN Return(act'.name, state_reports, 0)
               ELSE /\ exe' = [live |-> TRUE, option |-> option, k |-> 1,
                               n |-> 0]
                    /\ reports' = state_reports
                    /\ ret' = NoReturn
                    /\ pc' = "nav_loop"
    /\ log' = <<>>
    /\ UNCHANGED <<mv, probeVars, pureVars, classVars, reportVars, menu_strip>>

\* _execute, lines 598-608: one nudge of the search
OpenMenuAction_nudge ==
    /\ pc = "nav_loop"
    /\ \E f \in SourceFrames, d \in BOOLEAN :
        LET state_reports == Append(reports, Snapshot(Len(inputs) + 1))
        IN  /\ DejaVuEmulator_step(NavActions[exe.k], f, d)
            /\ inputs' = Append(inputs, NavActions[exe.k])
            /\ IF is_target_menu(exe.option, f)
               THEN Return(act.name, state_reports, 0)
               ELSE IF exe.n + 1 < MENU_NAV_MAX_STEPS
               THEN /\ exe' = [exe EXCEPT !.n = @ + 1]
                    /\ reports' = state_reports
                    /\ UNCHANGED <<pc, ret>>
               ELSE IF exe.k < Len(NavActions)
               THEN /\ exe' = [exe EXCEPT !.k = @ + 1, !.n = 0]
                    /\ reports' = state_reports
                    /\ UNCHANGED <<pc, ret>>
               ELSE Return(act.name, state_reports, 0 - 1)
    /\ UNCHANGED <<act, mv, log, probeVars, pureVars, classVars, reportVars, menu_strip>>

(***************************************************************************)
(* MoveGrid (the grid movement the controller registers)                   *)
(***************************************************************************)
\* _ACTION_MAP of the helper class MoveStepsAction of lines 123-129
ACTION_MAP ==
    [up |-> "PRESS_ARROW_UP", down |-> "PRESS_ARROW_DOWN",
     left |-> "PRESS_ARROW_LEFT", right |-> "PRESS_ARROW_RIGHT"]

\* Line 71 looks _ACTION_MAP up on whatever the module-level name
\* MoveStepsAction is bound to when MoveGrid runs.  The movement action of
\* line 366 rebinds that name and defines no _ACTION_MAP of its own, so the
\* lookup finds the map only if a base class supplies one, and raises
\* AttributeError otherwise; the base classes are not part of the sources,
\* so both outcomes are kept.
MoveStepsAction_has_ACTION_MAP == BOOLEAN

\* an exception leaves the routine without a return value
Raise(exception) ==
    /\ exe' = [live |-> FALSE, raised |-> exception]
    /\ pc' = "idle"
    /\ reports' = <<>>
    /\ UNCHANGED ret

MoveGrid_is_valid(x_steps, y_steps) ==
    current_state = FREE_ROAM /\ (x_steps /= 0 \/ y_steps /= 0)

\* the steps and the direction of an axis of the for loop
AxisSteps(e, axis) == IF axis = "x" THEN e.x_steps ELSE e.y_steps

AxisDirection(e, axis) ==
    IF axis = "x" THEN (IF e.x_steps > 0 THEN "right" ELSE "left")
    ELSE (IF e.y_steps > 0 THEN "down" ELSE "up")

MoveGrid_execute ==
    /\ \E x_steps \in (0 - MaxGridSteps)..MaxGridSteps,
          y_steps \in (0 - MaxGridSteps)..MaxGridSteps :
        /\ MoveGrid_is_valid(x_steps, y_steps)
        /\ BeginCall("MoveGrid", [x_steps |-> x_steps, y_steps |-> y_steps])
        /\ \E found \in MoveStepsAction_has_ACTION_MAP :
            exe' = [live |-> TRUE, x_steps |-> x_steps, y_steps |-> y_steps,
                    axis |-> IF x_steps /= 0 THEN "x" ELSE "y", i |-> 0,
                    found |-> found]
    /\ reports' = <<>>
    /\ inputs' = <<>>
    /\ log' = <<>>
    /\ ret' = NoReturn
    /\ pc' = "grid_loop"
    /\ UNCHANGED <<emuVars, trackerVars, mv, probeVars, pureVars, classVars, reportVars, menu_strip>>

\* line 71 when the lookup of _ACTION_MAP fails: nothing was stepped yet
MoveGrid_raise ==
    /\ pc = "grid_loop"
    /\ ~exe.found
    /\ Raise("AttributeError")
    /\ UNCHANGED <<emuVars, trackerVars, act, mv, inputs, log, probeVars, pureVars, classVars, reportVars, menu_strip>>

\* lines 69-76: one iteration of the inner loop
MoveGrid_tick ==
    /\ pc = "grid_loop"
    /\ exe.found
    /\ \E f \in SourceFrames, d \in BOOLEAN :
        LET action == ACTION_MAP[AxisDirection(exe, exe.axis)]
            appended == Append(reports, Snapshot(Len(inputs) + 1))
        IN  /\ DejaVuEmulator_step(action, f, d)
            /\ inputs' = Append(inputs, action)
            /\ IF ~ScreenChanged[frame][f]
               THEN Return(act.name, appended, 0 - 1)
               ELSE IF exe.i + 1 < Abs(AxisSteps(exe, exe.axis))
               THEN /\ exe' = [exe EXCEPT !.i = @ + 1]
                    /\ reports' = appended
                    /\ UNCHANGED <<pc, ret>>
               ELSE IF exe.axis = "x" /\ exe.y_steps /= 0
               THEN /\ exe' = [exe EXCEPT !.axis = "y", !.i = 0]
                    /\ reports' = appended
                    /\ UNCHANGED <<pc, ret>>
               ELSE Return(act.name, appended, 0)
    /\ UNCHANGED <<act, mv, log, probeVars, pureVars, classVars, reportVars, menu_strip>>

(***************************************************************************)
(* The single-button actions the controller registers                      *)
(***************************************************************************)
\* an action called without parameters
NoParams == [empty |-> TRUE]

OpenButtonMenu_is_valid == current_state = FREE_ROAM

CloseButtonMenu_is_valid == current_state = IN_MENU

SelectMenuOption_is_valid == current_state = IN_MENU

AdvanceDialogue_is_valid == current_state = IN_DIALOGUE

\* MoveCursor._ACTION_MAP
CURSOR_ACTION_MAP ==
    [up |-> "PRESS_ARROW_UP", down |-> "PRESS_ARROW_DOWN",
     left |-> "PRESS_ARROW_LEFT", right |-> "PRESS_ARROW_RIGHT"]

\* MoveCursor.is_valid: the direction is a key of the map, nothing else
MoveCursor_is_valid(direction) == direction \in DOMAIN CURSOR_ACTION_MAP

\* InteractAction.is_valid
InteractAction_is_valid == current_state = FREE_ROAM

\* _execute, lines 85-87
OpenButtonMenu_execute ==
    /\ \E f \in SourceFrames, d \in BOOLEAN :
        /\ OpenButtonMenu_is_valid
        /\ BeginCall("OpenButtonMenu", NoParams)
        /\ DejaVuEmulator_step("PRESS_BUTTON_START", f, d)
        /\ inputs' = <<"PRESS_BUTTON_START">>
        /\ Return(act'.name, <<Snapshot(1)>>, 0)
    /\ log' = <<>>
    /\ UNCHANGED <<mv, probeVars, pureVars, classVars, reportVars, menu_strip>>

\* _execute, lines 96-98
CloseButtonMenu_execute ==
    /\ \E f \in SourceFrames, d \in BOOLEAN :
        /\ CloseButtonMenu_is_valid
        /\ BeginCall("CloseButtonMenu", NoParams)
        /\ DejaVuEmulator_step("PRESS_BUTTON_B", f, d)
        /\ inputs' = <<"PRESS_BUTTON_B">>
        /\ Return(act'.name, <<Snapshot(1)>>, 0)
    /\ log' = <<>>
    /\ UNCHANGED <<mv, probeVars, pureVars, classVars, reportVars, menu_strip>>

\* _execute, lines 107-109
SelectMenuOption_execute ==
    /\ \E f \in SourceFrames, d \in BOOLEAN :
        /\ SelectMenuOption_is_valid
        /\ BeginCall("SelectMenuOption", NoParams)
        /\ DejaVuEmulator_step("PRESS_BUTTON_A", f, d)
        /\ inputs' = <<"PRESS_BUTTON_A">>
        /\ Return(act'.name, <<Snapshot(1)>>, 0)
    /\ log' = <<>>
    /\ UNCHANGED <<mv, probeVars, pureVars, classVars, reportVars, menu_strip>>

\* _execute, lines 118-120
AdvanceDialogue_execute ==
    /\ \E f \in SourceFrames, d \in BOOLEAN :
        /\ AdvanceDialogue_is_valid
        /\ BeginCall("AdvanceDialogue", NoParams)
        /\ DejaVuEmulator_step("PRESS_BUTTON_B", f, d)
        /\ inputs' = <<"PRESS_BUTTON_B">>
        /\ Return(act'.name, <<Snapshot(1)>>, 0)
    /\ log' = <<>>
    /\ UNCHANGED <<mv, probeVars, pureVars, classVars, reportVars, menu_strip>>

\* _execute, lines 46-51
MoveCursor_execute ==
    /\ \E direction \in Directions, f \in SourceFrames, d \in BOOLEAN :
        LET action == CURSOR_ACTION_MAP[direction]
        IN  /\ MoveCursor_is_valid(direction)
            /\ BeginCall("MoveCursor", [direction |-> direction])
            /\ DejaVuEmulator_step(action, f, d)
            /\ inputs' = <<action>>
            /\ Return(act'.name, <<Snapshot(1)>>,
                      IF ScreenChanged[frame][f] THEN 0 ELSE 0 - 1)
    /\ log' = <<>>
    /\ UNCHANGED <<mv, probeVars, pureVars, classVars, reportVars, menu_strip>>

(***************************************************************************)
(* Episodes                                                                *)
(***************************************************************************)
\* after termination the environment resets: the tracker starts over
Reset ==
    /\ pc = "idle"
    /\ done
    /\ \E f \in SourceFrames : frame' = f
    /\ done' = FALSE
    /\ TrackerReset
    /\ UNCHANGED <<callVars, probeVars, pureVars, classVars, reportVars, menu_strip>>

Init ==
    /\ frame \in SourceFrames
    /\ done = FALSE
    /\ current_state = IN_DIALOGUE
    /\ previous_state = IN_DIALOGUE
    /\ pc = "idle"
    /\ act = NoAction
    /\ exe = NoLocals
    /\ mv = NoLocals
    /\ reports = <<>>
    /\ ret = NoReturn
    /\ inputs = <<>>
    /\ log = <<>>
    /\ probe = IndFrame({})
    /\ cls = NoResults
    /\ first_cls = NoResults
    /\ pure_call = NoCall
    /\ pure_result = NoCall
    /\ InitClass
    /\ InitReport
    /\ InitStrip

Next ==
    \/ MoveStepsAction_execute
    \/ MoveTick
    \/ MoveReturn
    \/ MoveStepsAction_return
    \/ MoveGridAction_execute
    \/ MoveGridAction_after_x
    \/ MoveGridAction_after_y
    \/ MenuAction_execute
    \/ PuzzleAction_execute
    \/ OpenMenuAction_execute
    \/ OpenMenuAction_nudge
    \/ MoveGrid_execute
    \/ MoveGrid_raise
    \/ MoveGrid_tick
    \/ TickUntilStable_execute
    \/ TickUntilStable_tick
    \/ Reset

Spec == Init /\ [][Next]_vars

\* The actions DejaVuStateWiseController registers (ACTIONS, lines 27-35),
\* called in any order from the state after construction.
NextController ==
    \/ TickUntilStable_execute
    \/ TickUntilStable_tick
    \/ MoveCursor_execute
    \/ MoveGrid_execute
    \/ MoveGrid_raise
    \/ MoveGrid_tick
    \/ OpenButtonMenu_execute
    \/ CloseButtonMenu_execute
    \/ SelectMenuOption_execute
    \/ AdvanceDialogue_execute
    \/ Reset

SpecController == Init /\ [][NextController]_vars

\* move runs inside one sequential call: once the loop is entered the
\* interpreter keeps executing it, and the statements after it, until the
\* routine returns
FairSpec == Spec /\ WF_vars(MoveTick) /\ WF_vars(MoveReturn)

(***************************************************************************)
(* The encodings between action parameters and action-space values.       *)
(* An Optional return is <<>> for None and <<x>> for x; an integer        *)
(* argument that may be None is passed the same way.                       *)
(***************************************************************************)
HARD_MAX_STEPS == 20

\* how far outside a space or a parameter range the arguments are drawn
SpaceMargin == 2

\* list.index for a value the list holds: the first position, from 0
ListIndex(q, x) ==
    (CHOOSE i \in 1..Len(q) : q[i] = x /\ \A j \in 1..(i - 1) : q[j] /= x) - 1

MoveStepsAction_n == 4 * HARD_MAX_STEPS

MoveStepsAction_space_to_parameters_zero_based(space_action) ==
    IF space_action < 0 \/ space_action >= 4 * HARD_MAX_STEPS
    THEN <<>>
    ELSE IF space_action < HARD_MAX_STEPS
         THEN <<[direction |-> "up", steps |-> space_action]>>
         ELSE IF space_action < 2 * HARD_MAX_STEPS
              THEN <<[direction |-> "down",
                      steps |-> space_action - HARD_MAX_STEPS]>>
              ELSE IF space_action < 3 * HARD_MAX_STEPS
                   THEN <<[direction |-> "left",
                           steps |-> space_action - 2 * HARD_MAX_STEPS]>>
                   ELSE <<[direction |-> "right",
                           steps |-> space_action - 3 * HARD_MAX_STEPS]>>

MoveStepsAction_space_to_parameters(space_action) ==
    IF space_action < 0 \/ space_action >= 4 * HARD_MAX_STEPS
    THEN <<>>
    ELSE LET direction == IF space_action < HARD_MAX_STEPS THEN "up"
                          ELSE IF space_action < 2 * HARD_MAX_STEPS THEN "down"
                          ELSE IF space_action < 3 * HARD_MAX_STEPS THEN "left"
                          ELSE "right"
             steps == IF space_action < HARD_MAX_STEPS THEN space_action
                      ELSE IF space_action < 2 * HARD_MAX_STEPS
                           THEN space_action - HARD_MAX_STEPS
                      ELSE IF space_action < 3 * HARD_MAX_STEPS
                           THEN space_action - 2 * HARD_MAX_STEPS
                      ELSE space_action - 3 * HARD_MAX_STEPS
         IN  <<[direction |-> direction, steps |-> steps + 1]>>

MoveStepsAction_parameters_to_space(direction, steps) ==
    IF steps = <<>> \/ steps[1] <= 0 \/ steps[1] > HARD_MAX_STEPS
    THEN <<>>
    ELSE IF direction = "up" THEN <<steps[1] - 1>>
    ELSE IF direction = "down" THEN <<HARD_MAX_STEPS + steps[1] - 1>>
    ELSE IF direction = "left" THEN <<2 * HARD_MAX_STEPS + steps[1] - 1>>
    ELSE IF direction = "right" THEN <<3 * HARD_MAX_STEPS + steps[1] - 1>>
    ELSE <<>>

\* Box(low=-HARD_MAX_STEPS // 2, high=HARD_MAX_STEPS // 2, shape=(2,)):
\* Python parses the bound as (-HARD_MAX_STEPS) // 2, a floor division
MoveGridAction_low == 0 - ((HARD_MAX_STEPS + 1) \div 2)
MoveGridAction_high == HARD_MAX_STEPS \div 2

MoveGridAction_space_to_parameters(space_action) ==
    <<[x_steps |-> space_action[1], y_steps |-> space_action[2]]>>

MoveGridAction_parameters_to_space(x_steps, y_steps) ==
    <<<<x_steps, y_steps>>>>

MenuAction_n == Len(MENU_ACTION_KEYS)

MenuAction_parameters_to_space(menu_action) ==
    IF menu_action \notin SeqRange(MENU_ACTION_KEYS)
    THEN <<>>
    ELSE <<ListIndex(MENU_ACTION_KEYS, menu_action)>>

MenuAction_space_to_parameters(space_action) ==
    IF space_action < 0 \/ space_action >= MenuAction_n
    THEN <<>>
    ELSE <<[menu_action |-> MENU_ACTION_KEYS[space_action + 1]]>>

PuzzleAction_n == Len(PUZZLE_ACTION_KEYS)

PuzzleAction_parameters_to_space(puzzle_action) ==
    IF puzzle_action \notin SeqRange(PUZZLE_ACTION_KEYS)
    THEN <<>>
    ELSE <<ListIndex(PUZZLE_ACTION_KEYS, puzzle_action)>>

PuzzleAction_space_to_parameters(space_action) ==
    IF space_action < 0 \/ space_action >= PuzzleAction_n
    THEN <<>>
    ELSE <<[puzzle_action |-> PUZZLE_ACTION_KEYS[space_action + 1]]>>

OpenMenuAction_n == Len(OPTIONS)

OpenMenuAction_space_to_parameters(space_action) ==
    IF space_action < 0 \/ space_action >= OpenMenuAction_n
    THEN <<>>
    ELSE <<[option |-> OPTIONS[space_action + 1]]>>

OpenMenuAction_parameters_to_space(option) ==
    LET opt == IF option = None THEN "open" ELSE option
    IN  IF opt \notin SeqRange(OPTIONS)
        THEN <<>>
        ELSE <<ListIndex(OPTIONS, opt)>>

\* the arguments the encodings are called with: every member of the domain
\* and values around it
DirectionArgs == Directions \cup {"north"}
StepsArgs ==
    {<<>>} \cup {<<n>> : n \in (1 - SpaceMargin)..(HARD_MAX_STEPS + SpaceMargin)}
SubCommandArgs == SeqRange(MENU_ACTION_KEYS) \cup {"open", None}
OptionArgs == SeqRange(OPTIONS) \cup {"confirm", None}
SpaceArgs(n) == (0 - SpaceMargin)..(n - 1 + SpaceMargin)
ComponentArgs ==
    (MoveGridAction_low - SpaceMargin)..(MoveGridAction_high + SpaceMargin)

\* a call of one encoding followed, when it did not return None, by the
\* opposite one on its result
Called(fn, arg, first, second) ==
    /\ pure_call' = [fn |-> fn, arg |-> arg]
    /\ pure_result' = [first |-> first, second |-> second]
    /\ UNCHANGED <<emuVars, trackerVars, callVars, probeVars, classVars, reportVars, menu_strip>>

MoveStepsAction_encode ==
    \E direction \in DirectionArgs, steps \in StepsArgs :
        LET v == MoveStepsAction_parameters_to_space(direction, steps)
        IN  Called("MoveStepsAction.parameters_to_space",
                   [direction |-> direction, steps |-> steps], v,
                   IF v = <<>> THEN <<>>
                   ELSE MoveStepsAction_space_to_parameters(v[1]))

MoveStepsAction_decode ==
    \E space_action \in SpaceArgs(MoveStepsAction_n) :
        LET p == MoveStepsAction_space_to_parameters(space_action)
        IN  Called("MoveStepsAction.space_to_parameters", space_action, p,
                   IF p = <<>> THEN <<>>
                   ELSE MoveStepsAction_parameters_to_space(p[1].direction,
                                                            <<p[1].steps>>))

MoveGridAction_encode ==
    \E x_steps \in ComponentArgs, y_steps \in ComponentArgs :
        LET v == MoveGridAction_parameters_to_space(x_steps, y_steps)
        IN  Called("MoveGridAction.parameters_to_space",
                   [x_steps |-> x_steps, y_steps |-> y_steps], v,
                   MoveGridAction_space_to_parameters(v[1]))

MoveGridAction_decode ==
    \E x \in ComponentArgs, y \in ComponentArgs :
        LET p == MoveGridAction_space_to_parameters(<<x, y>>)
        IN  Called("MoveGridAction.space_to_parameters", <<x, y>>, p,
                   MoveGridAction_parameters_to_space(p[1].x_steps,
                                                      p[1].y_steps))

MenuAction_encode ==
    \E menu_action \in SubCommandArgs :
        LET v == MenuAction_parameters_to_space(menu_action)
        IN  Called("MenuAction.parameters_to_space",
                   [menu_action |-> menu_action], v,
                   IF v = <<>> THEN <<>>
                   ELSE MenuAction_space_to_parameters(v[1]))

MenuAction_decode ==
    \E space_action \in SpaceArgs(MenuAction_n) :
        LET p == MenuAction_space_to_parameters(space_action)
        IN  Called("MenuAction.space_to_parameters", space_action, p,
                   IF p = <<>> THEN <<>>
                   ELSE MenuAction_parameters_to_space(p[1].menu_action))

PuzzleAction_encode ==
    \E puzzle_action \in SubCommandArgs :
        LET v == PuzzleAction_parameters_to_space(puzzle_action)
        IN  Called("PuzzleAction.parameters_to_space",
                   [puzzle_action |-> puzzle_action], v,
                   IF v = <<>> THEN <<>>
                   ELSE PuzzleAction_space_to_parameters(v[1]))

PuzzleAction_decode ==
    \E space_action \in SpaceArgs(PuzzleAction_n) :
        LET p == PuzzleAction_space_to_parameters(space_action)
        IN  Called("PuzzleAction.space_to_parameters", space_action, p,
                   IF p = <<>> THEN <<>>
                   ELSE PuzzleAction_parameters_to_space(p[1].puzzle_action))

OpenMenuAction_encode ==
    \E option \in OptionArgs :
        LET v == OpenMenuAction_parameters_to_space(option)
        IN  Called("OpenMenuAction.parameters_to_space",
                   [option |-> option], v,
                   IF v = <<>> THEN <<>>
                   ELSE OpenMenuAction_space_to_parameters(v[1]))

OpenMenuAction_decode ==
    \E space_action \in SpaceArgs(OpenMenuAction_n) :
        LET p == OpenMenuAction_space_to_parameters(space_action)
        IN  Called("OpenMenuAction.space_to_parameters", space_action, p,
                   IF p = <<>> THEN <<>>
                   ELSE OpenMenuAction_parameters_to_space(p[1].option))

NextCodec ==
    \/ MoveStepsAction_encode
    \/ MoveStepsAction_decode
    \/ MoveGridAction_encode
    \/ MoveGridAction_decode
    \/ MenuAction_encode
    \/ MenuAction_decode
    \/ PuzzleAction_encode
    \/ PuzzleAction_decode
    \/ OpenMenuAction_encode
    \/ OpenMenuAction_decode

\* the encodings read nothing of the emulator: one frame is enough
InitCodec ==
    /\ Init
    /\ frame = MkFrame("flat", 0, 1, {})

SpecCodec == InitCodec /\ [][NextCodec]_vars

(***************************************************************************)
(* The region catalogs.  A region is <<name, x, y, width, height>>; a      *)
(* catalog is a list of regions.                                           *)
(***************************************************************************)
\* the longest catalog given to the merge
MaxRegions == 2

_get_proper_regions_base_wins(override_regions, base_regions) ==
    IF Len(override_regions) = 0
    THEN base_regions
    ELSE LET base_names == {base_regions[i][1] : i \in DOMAIN base_regions}
             keeps(region) == region[1] \notin base_names
         IN  base_regions \o SelectSeq(override_regions, keeps)

_get_proper_regions(override_regions, base_regions) ==
    IF Len(override_regions) = 0
    THEN base_regions
    ELSE LET override_names ==
                 {override_regions[i][1] : i \in DOMAIN override_regions}
             keeps(region) == region[1] \notin override_names
         IN  override_regions \o SelectSeq(base_regions, keeps)

\* regions the catalogs are drawn from: the strip that the variant catalog
\* redefines with another height, and two regions defined once
RegionNames == {"menu_navigation_strip", "screen", "evidence_list_top"}
Geometries == {<<0, 0, 160, 10>>, <<0, 0, 160, 12>>}
Regions == {<<n>> \o g : n \in RegionNames, g \in Geometries}

\* the catalogs of at most MaxRegions regions in which no name occurs twice
Catalogs ==
    UNION {{c \in [1..k -> Regions] :
               \A i, j \in 1..k : c[i][1] = c[j][1] => i = j} :
           k \in 0..MaxRegions}

\* the same regions in any order
Reorderings(catalog) ==
    {c \in Catalogs : Len(c) = Len(catalog) /\ SeqRange(c) = SeqRange(catalog)}

\* the merge is called on two catalogs, and on the same two catalogs with
\* their entries in another order
InitRegions ==
    /\ frame = MkFrame("flat", 0, 1, {})
    /\ done = FALSE
    /\ current_state = IN_DIALOGUE
    /\ previous_state = IN_DIALOGUE
    /\ pc = "idle"
    /\ act = NoAction
    /\ exe = NoLocals
    /\ mv = NoLocals
    /\ reports = <<>>
    /\ ret = NoReturn
    /\ inputs = <<>>
    /\ log = <<>>
    /\ probe = IndFrame({})
    /\ cls = NoResults
    /\ first_cls = NoResults
    /\ \E override_regions \in Catalogs, base_regions \in Catalogs :
       \E reordered_override \in Reorderings(override_regions),
          reordered_base \in Reorderings(base_regions) :
             pure_call = [fn |-> "_get_proper_regions",
                       override_regions |-> override_regions,
                       base_regions |-> base_regions,
                       reordered_override |-> reordered_override,
                       reordered_base |-> reordered_base]
    /\ pure_result = NoCall
    /\ InitClass
    /\ InitReport
    /\ InitStrip

get_proper_regions_call ==
    /\ pure_call.fn = "_get_proper_regions"
    /\ pure_result = NoCall
    /\ pure_result' =
           [first |-> _get_proper_regions(pure_call.override_regions,
                                          pure_call.base_regions),
            second |-> _get_proper_regions(pure_call.reordered_override,
                                           pure_call.reordered_base)]
    /\ UNCHANGED <<emuVars, trackerVars, callVars, probeVars, pure_call,
                   classVars, reportVars, menu_strip>>

NextRegions == get_proper_regions_call

SpecRegions == InitRegions /\ [][NextRegions]_vars

(***************************************************************************)
(* The command strings of the controller.  A string is a sequence of      *)
(* chunks: a chunk is a run of letters or digits, or one of the characters *)
(* "(", ")", "," and " ".  The text of a string is the concatenation of    *)
(* its chunks.                                                             *)
(***************************************************************************)
\* the most chunks that follow the first one of a command string
MaxChunks == 5

\* str.lower and, to build inputs, str.upper, chunk by chunk
LowerChunk(c) ==
    CASE c \in {"MoveCursor", "MOVECURSOR"} -> "movecursor"
      [] c = "MOVEGRID" -> "movegrid"
      [] c = "TICKUNTILSTABLE" -> "tickuntilstable"
      [] c = "ADVANCEDIALOGUE" -> "advancedialogue"
      [] c = "FLY" -> "fly"
      [] c = "UP" -> "up"
      [] OTHER -> c

UpperChunk(c) ==
    CASE LowerChunk(c) = "movecursor" -> "MOVECURSOR"
      [] LowerChunk(c) = "movegrid" -> "MOVEGRID"
      [] LowerChunk(c) = "tickuntilstable" -> "TICKUNTILSTABLE"
      [] LowerChunk(c) = "advancedialogue" -> "ADVANCEDIALOGUE"
      [] LowerChunk(c) = "fly" -> "FLY"
      [] LowerChunk(c) = "up" -> "UP"
      [] OTHER -> c

lower(s) == [i \in DOMAIN s |-> LowerChunk(s[i])]
upper(s) == [i \in DOMAIN s |-> UpperChunk(s[i])]

\* str.strip: the string without its leading and trailing blanks
strip(s) ==
    LET inked == {i \in DOMAIN s : s[i] /= " "}
    IN  IF inked = {}
        THEN <<>>
        ELSE SubSeq(s, CHOOSE i \in inked : \A j \in inked : i <= j,
                       CHOOSE i \in inked : \A j \in inked : i >= j)

\* str.split(sep): the pieces between the occurrences of sep
RECURSIVE split(_, _)
split(s, sep) ==
    LET at == {i \in DOMAIN s : s[i] = sep}
    IN  IF at = {}
        THEN <<s>>
        ELSE LET first == CHOOSE i \in at : \A j \in at : i <= j
             IN  <<SubSeq(s, 1, first - 1)>>
                     \o split(SubSeq(s, first + 1, Len(s)), sep)

\* the text of a string
RECURSIVE Text(_)
Text(s) == IF s = <<>> THEN "" ELSE Head(s) \o Text(Tail(s))

\* int(str): blanks around the number are ignored, the rest is an optional
\* sign followed by digits; <<>> stands for the ValueError
DigitValue ==
    [c \in {"0", "1", "2", "3", "4", "5", "6", "7", "8", "9"} |->
        CASE c = "0" -> 0 [] c = "1" -> 1 [] c = "2" -> 2 [] c = "3" -> 3
          [] c = "4" -> 4 [] c = "5" -> 5 [] c = "6" -> 6 [] c = "7" -> 7
          [] c = "8" -> 8 [] c = "9" -> 9]

RECURSIVE DigitsValue(_)
DigitsValue(t) ==
    IF t = <<>> THEN 0
    ELSE DigitsValue(SubSeq(t, 1, Len(t) - 1)) * 10 + DigitValue[t[Len(t)]]

AllDigits(t) == t /= <<>> /\ \A i \in DOMAIN t : t[i] \in DOMAIN DigitValue

int_unsigned(s) ==
    LET t == strip(s)
    IN  IF AllDigits(t) THEN <<DigitsValue(t)>> ELSE <<>>

int(s) ==
    LET t == strip(s)
    IN  IF AllDigits(t)
        THEN <<DigitsValue(t)>>
        ELSE IF t /= <<>> /\ t[1] \in {"-", "+"} /\ AllDigits(Tail(t))
             THEN <<(IF t[1] = "-" THEN 0 - 1 ELSE 1) * DigitsValue(Tail(t))>>
             ELSE <<>>

\* the (class, parameters) pair returned; (None, None) is NoCommand
Command(class, params) == [class |-> class, params |-> <<params>>]
NoCommand == [class |-> None, params |-> <<>>]

string_to_high_level_action(input_string) ==
    LET input_str == strip(lower(input_string))
    IN  IF "(" \notin SeqRange(input_str) \/ ")" \notin SeqRange(input_str)
        THEN NoCommand
        ELSE
        LET action_name == Text(strip(split(input_str, "(")[1]))
            action_args_str == strip(split(split(input_str, "(")[2], ")")[1])
        IN  CASE action_name = "tickuntilstable" ->
                    Command("TickUntilStable", NoParams)
              [] action_name = "movecursor" ->
                    LET direction == Text(strip(action_args_str))
                    IN  IF direction \in {"up", "down", "left", "right"}
                        THEN Command("MoveCursor", [direction |-> direction])
                        ELSE NoCommand
              [] action_name = "movegrid" ->
                    LET pieces == split(action_args_str, ",")
                    IN  IF Len(pieces) = 2
                           /\ int(pieces[1]) /= <<>> /\ int(pieces[2]) /= <<>>
                        THEN Command("MoveGrid",
                                     [x_steps |-> int(pieces[1])[1],
                                      y_steps |-> int(pieces[2])[1]])
                        ELSE NoCommand
              [] action_name = "openbuttonmenu" ->
                    Command("OpenButtonMenu", NoParams)
              [] action_name = "closebuttonmenu" ->
                    Command("CloseButtonMenu", NoParams)
              [] action_name = "selectmenuoption" ->
                    Command("SelectMenuOption", NoParams)
              [] action_name = "advancedialogue" ->
                    Command("AdvanceDialogue", NoParams)
              [] OTHER -> NoCommand

\* the strings given to the parser: a name, known or not, in lower or mixed
\* case, followed by at most MaxChunks chunks
NameChunks ==
    {"MoveCursor", "movegrid", "tickuntilstable", "advancedialogue", "fly"}
ArgChunks == {"(", ")", ",", " ", "up", "1"}
CommandStrings ==
    {<<n>> \o rest : n \in NameChunks,
                     rest \in UNION {[1..k -> ArgChunks] : k \in 0..MaxChunks}}

InitParser ==
    /\ frame = MkFrame("flat", 0, 1, {})
    /\ done = FALSE
    /\ current_state = IN_DIALOGUE
    /\ previous_state = IN_DIALOGUE
    /\ pc = "idle"
    /\ act = NoAction
    /\ exe = NoLocals
    /\ mv = NoLocals
    /\ reports = <<>>
    /\ ret = NoReturn
    /\ inputs = <<>>
    /\ log = <<>>
    /\ probe = IndFrame({})
    /\ cls = NoResults
    /\ first_cls = NoResults
    /\ \E input_str \in CommandStrings :
          pure_call = [fn |-> "string_to_high_level_action",
                       input_str |-> input_str]
    /\ pure_result = NoCall
    /\ InitClass
    /\ InitReport
    /\ InitStrip

\* the parser is called on the string and on the same string in upper case
string_to_high_level_action_call ==
    /\ pure_call.fn = "string_to_high_level_action"
    /\ pure_result = NoCall
    /\ pure_result' =
           [first |-> string_to_high_level_action(pure_call.input_str),
            second |-> string_to_high_level_action(upper(pure_call.input_str))]
    /\ UNCHANGED <<emuVars, trackerVars, callVars, probeVars, pure_call,
                   classVars, reportVars, menu_strip>>

NextParser == string_to_high_level_action_call

SpecParser == InitParser /\ [][NextParser]_vars

(***************************************************************************)
(* Commands written in the grammar get_action_strings documents, and read  *)
(* back by string_to_high_level_action.                                    *)
(***************************************************************************)
\* the largest absolute value of a movegrid argument
MaxCoordinate == 10

Controller_ACTIONS ==
    <<"TickUntilStable", "MoveCursor", "MoveGrid", "OpenButtonMenu",
      "CloseButtonMenu", "SelectMenuOption", "AdvanceDialogue">>

\* the command names of get_action_strings: the text before "("
get_action_strings ==
    [class \in SeqRange(Controller_ACTIONS) |->
        CASE class = "TickUntilStable" -> "tickuntilstable"
          [] class = "MoveCursor" -> "movecursor"
          [] class = "MoveGrid" -> "movegrid"
          [] class = "OpenButtonMenu" -> "openbuttonmenu"
          [] class = "CloseButtonMenu" -> "closebuttonmenu"
          [] class = "SelectMenuOption" -> "selectmenuoption"
          [] class = "AdvanceDialogue" -> "advancedialogue"]

\* str(int): a minus sign for a negative number, then the decimal digits
DigitChunk(d) == CHOOSE c \in DOMAIN DigitValue : DigitValue[c] = d

RECURSIVE Digits(_)
Digits(n) ==
    IF n < 10 THEN <<DigitChunk(n)>>
    ELSE Digits(n \div 10) \o <<DigitChunk(n % 10)>>

str(n) == IF n < 0 THEN <<"-">> \o Digits(0 - n) ELSE Digits(n)

\* the command string name(arg1,arg2) of a class and its parameters
CommandString(class, params) ==
    <<get_action_strings[class], "(">>
        \o (CASE class = "MoveCursor" -> <<params.direction>>
              [] class = "MoveGrid" ->
                    str(params.x_steps) \o <<",">> \o str(params.y_steps)
              [] OTHER -> <<>>)
        \o <<")">>

\* the parameter sets of each class's documented grammar
ParametersOf(class) ==
    CASE class = "MoveCursor" ->
             {[direction |-> d] : d \in {"up", "down", "left", "right"}}
      [] class = "MoveGrid" ->
             {[x_steps |-> x, y_steps |-> y] :
                 x \in (0 - MaxCoordinate)..MaxCoordinate,
                 y \in (0 - MaxCoordinate)..MaxCoordinate}
      [] OTHER -> {NoParams}

InitRoundTrip ==
    /\ frame = MkFrame("flat", 0, 1, {})
    /\ done = FALSE
    /\ current_state = IN_DIALOGUE
    /\ previous_state = IN_DIALOGUE
    /\ pc = "idle"
    /\ act = NoAction
    /\ exe = NoLocals
    /\ mv = NoLocals
    /\ reports = <<>>
    /\ ret = NoReturn
    /\ inputs = <<>>
    /\ log = <<>>
    /\ probe = IndFrame({})
    /\ cls = NoResults
    /\ first_cls = NoResults
    /\ \E class \in SeqRange(Controller_ACTIONS) :
       \E params \in ParametersOf(class) :
          pure_call = [fn |-> "CommandString", class |-> class,
                       params |-> params]
    /\ pure_result = NoCall
    /\ InitClass
    /\ InitReport
    /\ InitStrip

\* the command is written and the string is parsed
round_trip_call ==
    /\ pure_call.fn = "CommandString"
    /\ pure_result = NoCall
    /\ LET input_str == CommandString(pure_call.class, pure_call.params)
       IN  pure_result' = [first |-> input_str,
                           second |-> string_to_high_level_action(input_str)]
    /\ UNCHANGED <<emuVars, trackerVars, callVars, probeVars, pure_call,
                   classVars, reportVars, menu_strip>>

NextRoundTrip == round_trip_call

SpecRoundTrip == InitRoundTrip /\ [][NextRoundTrip]_vars

(***************************************************************************)
(* The Movement Judge as a pure function of two frames.                    *)
(***************************************************************************)
\* frames given to the judge: the three backgrounds, the tiling at two
\* scroll offsets, two player sprites, with and without a dialogue box
JudgeFrames ==
    {MkFrame(bg, off, player, ind) :
        bg \in {"flat", "rows", "tiles"}, off \in {0, 1}, player \in {1, 2},
        ind \in {{}, {"dialogue_bottom_right"}}}

\* what the judge computes on the way: for each quadrant whether it is
\* unchanged, and whether each capture is treated as uniform
QuadrantReport(previous_frame, current_frame) ==
    [quadrant \in SeqRange(Quadrants) |->
        LET prev_quad == capture_named_region(previous_frame, quadrant)
            curr_quad == capture_named_region(current_frame, quadrant)
        IN  [unchanged |-> ~frame_changed(prev_quad, curr_quad),
             prev_uniform |-> IsFlat(prev_quad)
                              \/ is_uniform_quadrant(previous_frame, quadrant),
             curr_uniform |-> IsFlat(curr_quad)
                              \/ is_uniform_quadrant(current_frame, quadrant)]]

InitJudge ==
    /\ frame = MkFrame("flat", 0, 1, {})
    /\ done = FALSE
    /\ current_state = IN_DIALOGUE
    /\ previous_state = IN_DIALOGUE
    /\ pc = "idle"
    /\ act = NoAction
    /\ exe = NoLocals
    /\ mv = NoLocals
    /\ reports = <<>>
    /\ ret = NoReturn
    /\ inputs = <<>>
    /\ log = <<>>
    /\ probe = IndFrame({})
    /\ cls = NoResults
    /\ first_cls = NoResults
    /\ \E previous_frame \in JudgeFrames, current_frame \in JudgeFrames :
          pure_call = [fn |-> "judge_movement",
                       previous_frame |-> previous_frame,
                       current_frame |-> current_frame]
    /\ pure_result = NoCall
    /\ InitClass
    /\ InitReport
    /\ InitStrip

judge_movement_call ==
    /\ pure_call.fn = "judge_movement"
    /\ pure_result = NoCall
    /\ pure_result' =
           [first |-> judge_movement(pure_call.previous_frame,
                                     pure_call.current_frame),
            second |-> QuadrantReport(pure_call.previous_frame,
                                      pure_call.current_frame)]
    /\ UNCHANGED <<emuVars, trackerVars, callVars, probeVars, pure_call,
                   classVars, reportVars, menu_strip>>

NextJudge == judge_movement_call

SpecJudge == InitJudge /\ [][NextJudge]_vars

(***************************************************************************)
(* Construction of parsers.  A mapping from region names to target lists   *)
(* is a function; dict.copy is shallow, so the lists of a copied mapping   *)
(* are the lists of the original.                                          *)
(***************************************************************************)
\* the most parsers constructed in one process
MaxParsers == 3

\* the override_multi_targets callers pass: none, the mapping of
\* DejaVu1And2StateParser, a target for the menu box, one more clue target
OverrideMappings ==
    {[none |-> <<>>],
     [clue_text_area |-> <<"clue_obtained", "suspect_questioned",
                           "alibi_verified", "contradiction_found">>,
      verdict_announcement |-> <<"correct_solution", "wrong_accusation",
                                 "case_incomplete", "case_passed">>],
     [menu_box_strip |-> <<"cursor_on_frame">>],
     [clue_text_area |-> <<"clue_obtained">>]}

\* the keys of a mapping; [none |-> <<>>] stands for the empty dict
Keys(mapping) == DOMAIN mapping \ {"none"}

\* the keys of the dict built from a list of names: each name once, in the
\* order of its first occurrence
RECURSIVE DictKeys(_)
DictKeys(names) ==
    IF names = <<>> THEN <<>>
    ELSE LET front == DictKeys(SubSeq(names, 1, Len(names) - 1))
             last == names[Len(names)]
         IN  IF last \in SeqRange(front) THEN front ELSE Append(front, last)

\* DejaVuStateParser.__init__ from multi_targets = COMMON_MULTI_TARGETS.copy()
\* to the region_target_paths of each region.  The lists of the copy are the
\* class's lists, so extend() writes through to COMMON_MULTI_TARGETS; a key
\* the class does not hold is bound to the caller's own list, so append()
\* on menu_box_strip writes through to the caller's mapping.
Construct(override_multi_targets) ==
    LET extended ==
            [key \in DOMAIN COMMON_MULTI_TARGETS |->
                IF key \in Keys(override_multi_targets)
                THEN COMMON_MULTI_TARGETS[key] \o override_multi_targets[key]
                ELSE COMMON_MULTI_TARGETS[key]]
        names == DOMAIN extended \cup Keys(override_multi_targets)
        merged ==
            [key \in names |->
                IF key \in DOMAIN extended THEN extended[key]
                ELSE override_multi_targets[key]]
        inClass == "menu_box_strip" \in DOMAIN extended
        inOverride == "menu_box_strip" \in names /\ ~inClass
        multi_targets ==
            [key \in names \cup {"menu_box_strip"} |->
                IF key /= "menu_box_strip" THEN merged[key]
                ELSE IF key \in names
                     THEN Append(merged[key], "cursor_on_options")
                     ELSE <<"cursor_on_options">>]
    IN  /\ COMMON_MULTI_TARGETS' =
               IF inClass
               THEN [extended EXCEPT !["menu_box_strip"] =
                                        Append(@, "cursor_on_options")]
               ELSE extended
        /\ parsers' = Append(parsers,
               [override_multi_targets |-> override_multi_targets,
                override_after |->
                    IF inOverride
                    THEN [override_multi_targets EXCEPT !["menu_box_strip"] =
                              Append(@, "cursor_on_options")]
                    ELSE override_multi_targets,
                region_target_paths |->
                    [key \in DOMAIN multi_targets |->
                        DictKeys(multi_targets[key])]])

\* a parser of some subclass is constructed
DejaVuStateParser_init ==
    /\ Len(parsers) < MaxParsers
    /\ \E override_multi_targets \in OverrideMappings :
           Construct(override_multi_targets)
    /\ UNCHANGED <<emuVars, trackerVars, callVars, probeVars, pureVars, reportVars, menu_strip>>

NextConstruct == DejaVuStateParser_init

SpecConstruct == Init /\ [][NextConstruct]_vars

(***************************************************************************)
(* Properties of the classifier                                            *)
(***************************************************************************)
HasPuzzle(f) == f.ind \cap PuzzleIndicators /= {}
HasMenu(f) == f.ind \cap MenuIndicators /= {}
HasDialogue(f) == f.ind \cap DialogueIndicators /= {}

\* C1: for every combination of indicator matches, get_agent_state returns
\* exactly one of the four modes, never an unknown or absent mode.
C1_Totality ==
    cls /= NoResults => cls.state \in AgentState

C1_Witness ==
    /\ cls /= NoResults
    /\ probe.ind = {}
    /\ cls.state = FREE_ROAM

\* C2: fixed precedence puzzle > menu > dialogue > free roam: IN_PUZZLE iff a
\* puzzle indicator matches; IN_MENU iff no puzzle but a menu indicator
\* matches; IN_DIALOGUE iff neither and dialogue_bottom_right matches;
\* FREE_ROAM otherwise.
C2_Precedence ==
    cls /= NoResults =>
        /\ cls.state = IN_PUZZLE <=> HasPuzzle(probe)
        /\ cls.state = IN_MENU <=> (~HasPuzzle(probe) /\ HasMenu(probe))
        /\ cls.state = IN_DIALOGUE <=>
              (~HasPuzzle(probe) /\ ~HasMenu(probe) /\ HasDialogue(probe))
        /\ cls.state = FREE_ROAM <=>
              (~HasPuzzle(probe) /\ ~HasMenu(probe) /\ ~HasDialogue(probe))

C2_Witness ==
    /\ cls /= NoResults
    /\ probe.ind = {"deduction_highlight", "evidence_list_top",
                    "dialogue_bottom_right"}
    /\ cls.state = IN_PUZZLE

\* C3: the trust_previous fast path agrees with the full path: is_in_menu
\* gives the same answer with either flag, is_in_dialogue gives the same
\* answer with either flag when neither menu nor puzzle indicators match,
\* and get_agent_state is IN_DIALOGUE iff the full is_in_dialogue holds.
C3_FastPathAgrees ==
    cls /= NoResults =>
        /\ cls.menu_fast = cls.menu_full
        /\ (~HasPuzzle(probe) /\ ~HasMenu(probe))
              => cls.dialogue_fast = cls.dialogue_full
        /\ cls.state = IN_DIALOGUE <=> cls.dialogue_full

C3_Witness ==
    /\ cls /= NoResults
    /\ probe.ind = {"dialogue_bottom_right"}
    /\ cls.dialogue_fast
    /\ cls.dialogue_full
    /\ cls.state = IN_DIALOGUE

Reported == reports[Len(reports)].action_return[1].n_steps_taken

\* a tick that counts as progress: not terminated, judged moved or rotated
Progress(e) == ~e.done /\ (e.moved \/ e.rotated = "True")

\* a tick judged as neither movement nor rotation
Blocked(e) == ~e.done /\ ~e.moved /\ e.rotated /= "True"

\* a progress tick whose new frame is classified outside FREE_ROAM
Diverting(e) == Progress(e) /\ e.state /= FREE_ROAM

\* C5: when every tick of move(direction, N) is progress (movement or
\* rotation in place), the mode stays FREE_ROAM and the source never
\* terminates, move issues exactly N inputs and returns code 0 with
\* n_steps_taken = N; code 0 always comes with n_steps_taken = N.
C5_CompletedReportsAllSteps ==
    pc = "after_move" =>
        /\ (\A i \in 1..Len(log) :
                Progress(log[i]) /\ log[i].state = FREE_ROAM)
              => /\ Len(log) = mv.steps
                 /\ mv.action_success = 0
                 /\ Reported = mv.steps
        /\ mv.action_success = 0 => Reported = mv.steps

\* C6: when the first M ticks of move(direction, N), 1 <= M < N, are judged
\* as movement in FREE_ROAM and tick M+1 is judged as neither movement nor
\* rotation, move stops after exactly M+1 inputs and returns code 1 with
\* n_steps_taken = M.
C6_BlockedAfterM ==
    \A M \in 1..(Len(log) - 1) :
        ( /\ \A i \in 1..M :
                ~log[i].done /\ log[i].moved /\ log[i].state = FREE_ROAM
          /\ Blocked(log[M + 1]) )
        => /\ Len(log) = M + 1
           /\ pc /= "move_loop"
           /\ mv.live => M < mv.steps
           /\ pc = "after_move" =>
                 (mv.action_success = 1 /\ Reported = M)
           /\ (ret /= NoReturn /\ ret.action = "MoveStepsAction") =>
                 /\ ret.action_success = 1
                 /\ Len(inputs) = M + 1
                 /\ Len(ret.reports) = M + 1
                 /\ ret.reports[M + 1].action_return[1].n_steps_taken = M

C6_Witness ==
    /\ ret /= NoReturn
    /\ ret.action = "MoveStepsAction"
    /\ act.params.steps = 3
    /\ Len(log) = 3
    /\ log[1].moved /\ log[1].state = FREE_ROAM
    /\ log[2].moved /\ log[2].state = FREE_ROAM
    /\ Blocked(log[3])
    /\ ret.action_success = 1

\* C7: on every return of move the code agrees with the reported step
\* count: code 1 only with 1 <= n_steps_taken < steps, code -1 only with
\* n_steps_taken = 0.
C7_CodeMatchesStepCount ==
    pc = "after_move" =>
        /\ mv.action_success = 1 => (Reported >= 1 /\ Reported < mv.steps)
        /\ mv.action_success = 0 - 1 => Reported = 0

\* C8: a progress tick whose new frame is classified outside FREE_ROAM is
\* the last tick of move and move returns code 2; code 2 is returned in no
\* other situation; codes 0, 1 and -1 are returned only when every mode
\* move classified, the last one included, was FREE_ROAM.
C8_DivertedIffCode2 ==
    /\ \A i \in 1..Len(log) :
          Diverting(log[i]) => (i = Len(log) /\ pc /= "move_loop")
    /\ pc = "after_move" =>
          /\ mv.action_success = 2 <=>
                (Len(log) > 0 /\ Diverting(log[Len(log)]))
          /\ mv.action_success \in {0, 1, 0 - 1} =>
                \A i \in 1..Len(log) : log[i].state \in {None, FREE_ROAM}
          /\ mv.action_success \in {0 - 1, 0, 1, 2}

C8_Witness ==
    /\ pc = "after_move"
    /\ mv.action_success = 2
    /\ Len(log) = 2
    /\ log[1].moved /\ log[1].state = FREE_ROAM
    /\ ~log[2].moved /\ log[2].rotated = "True"
    /\ log[2].state = IN_DIALOGUE

\* C9: every call move(direction, steps) with steps >= 1 terminates, having
\* issued at least 1 and at most steps inputs, each of them the input
\* mapped to direction, whatever frames, modes and termination flags the
\* source produces.
C9_MoveTerminates ==
    /\ [](mv.live =>
            /\ Len(log) <= mv.steps
            /\ Len(log) <= Len(inputs)
            /\ \A i \in 1..Len(log) :
                  /\ log[i].input = action_dict[mv.direction]
                  /\ inputs[Len(inputs) - Len(log) + i]
                        = action_dict[mv.direction]
            /\ act.name = "MoveStepsAction" => Len(inputs) = Len(log)
            /\ pc = "after_move" => Len(log) >= 1)
    /\ (pc = "move_loop") ~> (pc = "after_move")

C9_Witness ==
    /\ pc = "after_move"
    /\ act.name = "MoveStepsAction"
    /\ mv.steps = 3
    /\ Len(inputs) = 3
    /\ \E i \in 1..3 : log[i].done

(***************************************************************************)
(* Properties of the returned snapshots                                    *)
(***************************************************************************)
\* C10: every high-level action returns one snapshot per tick it issued, in
\* tick order: the list is as long as the number of emulator steps of the
\* call and is never empty.
C10_OneSnapshotPerTick ==
    ret /= NoReturn =>
        /\ Len(ret.reports) = Len(inputs)
        /\ Len(ret.reports) >= 1
        /\ \A i \in 1..Len(ret.reports) : ret.reports[i].tick = i

(***************************************************************************)
(* Properties of MoveGridAction                                            *)
(***************************************************************************)
HorizontalInputs == {"PRESS_ARROW_RIGHT", "PRESS_ARROW_LEFT"}
VerticalInputs == {"PRESS_ARROW_UP", "PRESS_ARROW_DOWN"}

\* the horizontal input a two-axis move with these parameters issues
XInput(params) ==
    IF params.x_steps >= 0 THEN "PRESS_ARROW_RIGHT" ELSE "PRESS_ARROW_LEFT"

\* the inputs of the call so far: horizontal ones first, then vertical ones
AxesInOrder ==
    \A i \in 1..Len(inputs) : \A j \in 1..Len(inputs) :
        (inputs[i] \in VerticalInputs /\ inputs[j] \in HorizontalInputs)
            => j < i

SubCommandInput(sub_command) ==
    CASE sub_command = "up" -> "PRESS_ARROW_UP"
      [] sub_command = "down" -> "PRESS_ARROW_DOWN"
      [] sub_command = "left" -> "PRESS_ARROW_LEFT"
      [] sub_command = "right" -> "PRESS_ARROW_RIGHT"
      [] sub_command = "confirm" -> "PRESS_BUTTON_A"
      [] sub_command = "back" -> "PRESS_BUTTON_B"

\* the sub-command a MenuAction or PuzzleAction was called with
RequestedSubCommand ==
    IF act.name = "MenuAction" THEN act.params.menu_action
    ELSE act.params.puzzle_action

\* C12: MenuAction and PuzzleAction are single-tick: one execution issues
\* exactly one input, the one mapped to the requested sub-command, produces
\* exactly one snapshot, and returns 0 iff the frame after the tick differs
\* beyond epsilon from the frame captured just before the input, else -1.
C12_SingleTick ==
    /\ []((ret /= NoReturn /\ ret.action \in {"MenuAction", "PuzzleAction"}) =>
            /\ inputs = <<SubCommandInput(RequestedSubCommand)>>
            /\ Len(ret.reports) = 1
            /\ ret.reports[1].tick = 1
            /\ ret.action_success \in {0, 0 - 1})
    /\ [][(/\ pc = "idle"
           /\ ~done
           /\ ret' /= NoReturn
           /\ ret'.action \in {"MenuAction", "PuzzleAction"})
          => (ret'.action_success = 0
                <=> ScreenChanged[frame][frame'])]_vars

C12_Witness ==
    /\ ret /= NoReturn
    /\ ret.action = "MenuAction"
    /\ act.params.menu_action = "confirm"
    /\ inputs = <<"PRESS_BUTTON_A">>
    /\ ret.action_success = 0
    /\ get_agent_state(frame) = FREE_ROAM

SingleButtonActions ==
    {"AdvanceDialogue", "SelectMenuOption", "CloseButtonMenu",
     "OpenButtonMenu", "MoveCursor"}

\* C13: AdvanceDialogue, SelectMenuOption, CloseButtonMenu, OpenButtonMenu
\* and MoveCursor report 0 if the frame changed relative to the frame
\* captured just before their one input, and -1 if it did not.
C13_SingleButtonSuccess ==
    [][(/\ pc = "idle"
        /\ ~done
        /\ ret' /= NoReturn
        /\ ret'.action \in SingleButtonActions)
       => ret'.action_success =
              (IF ScreenChanged[frame][frame'] THEN 0 ELSE 0 - 1)]_vars

(***************************************************************************)
(* Properties of the validity checks                                       *)
(***************************************************************************)
GridParameters == (0 - MaxGridSteps)..MaxGridSteps

\* C14: validity is gated on the tracked mode: MenuAction, MoveCursor,
\* SelectMenuOption and CloseButtonMenu are valid only in IN_MENU,
\* PuzzleAction only in IN_PUZZLE, AdvanceDialogue only in IN_DIALOGUE, the
\* movement family, InteractAction, OpenMenuAction and OpenButtonMenu only
\* in FREE_ROAM, whatever well-formed parameters they are given.
C14_ValidityGated ==
    /\ \A menu_action \in SeqRange(MENU_ACTION_KEYS) \cup {None} :
          MenuAction_is_valid(menu_action) => current_state = IN_MENU
    /\ \A direction \in Directions :
          MoveCursor_is_valid(direction) => current_state = IN_MENU
    /\ SelectMenuOption_is_valid => current_state = IN_MENU
    /\ CloseButtonMenu_is_valid => current_state = IN_MENU
    /\ \A puzzle_action \in SeqRange(PUZZLE_ACTION_KEYS) \cup {None} :
          PuzzleAction_is_valid(puzzle_action) => current_state = IN_PUZZLE
    /\ AdvanceDialogue_is_valid => current_state = IN_DIALOGUE
    /\ \A direction \in Directions, steps \in 1..MaxSteps :
          MoveStepsAction_is_valid(direction, steps)
              => current_state = FREE_ROAM
    /\ \A x_steps \in GridParameters, y_steps \in GridParameters :
          /\ MoveGridAction_is_valid(x_steps, y_steps)
                => current_state = FREE_ROAM
          /\ MoveGrid_is_valid(x_steps, y_steps)
                => current_state = FREE_ROAM
    /\ InteractAction_is_valid => current_state = FREE_ROAM
    /\ \A option \in SeqRange(OPTIONS) \cup {None} :
          OpenMenuAction_is_valid(option) => current_state = FREE_ROAM
    /\ OpenButtonMenu_is_valid => current_state = FREE_ROAM

(***************************************************************************)
(* Properties of OpenMenuAction                                            *)
(***************************************************************************)
\* a step that executes the START press of OpenMenuAction
OpenMenuStarts == pc = "idle" /\ ~done /\ act'.name = "OpenMenuAction"

\* C15: when the mode classified from the frame that follows the START
\* input is not IN_MENU, OpenMenuAction fails with -1 after exactly one
\* input and one snapshot and issues no lateral nudge.
C15_NotMenuFails ==
    [][(OpenMenuStarts /\ get_agent_state(frame') /= IN_MENU)
       => (/\ pc' = "idle"
           /\ ret' /= NoReturn
           /\ ret'.action_success = 0 - 1
           /\ Len(ret'.reports) = 1
           /\ inputs' = <<"PRESS_BUTTON_START">>)]_vars

LateralInputs == {"PRESS_ARROW_RIGHT", "PRESS_ARROW_LEFT"}

\* the inputs of an OpenMenuAction call: START, then RIGHTs, then LEFTs, a
\* LEFT only after MENU_NAV_MAX_STEPS RIGHTs
SearchOrder ==
    /\ Len(inputs) >= 1
    /\ inputs[1] = "PRESS_BUTTON_START"
    /\ Len(inputs) <= 1 + 2 * MENU_NAV_MAX_STEPS
    /\ \A i \in 2..Len(inputs) :
          inputs[i] = (IF i <= 1 + MENU_NAV_MAX_STEPS
                       THEN "PRESS_ARROW_RIGHT" ELSE "PRESS_ARROW_LEFT")

\* the section an OpenMenuAction call looks for
TargetOf(params) == IF params.option = None THEN "open" ELSE params.option

\* C16: OpenMenuAction with a section target not shown on opening nudges
\* RIGHT up to MENU_NAV_MAX_STEPS times, then LEFT up to as many times,
\* checks the target's indicator after every nudge, returns 0 at the first
\* tick on which it matches without a further input, and returns -1 only
\* after both budgets are exhausted; at most 1 + 16 inputs, and no LEFT
\* before all 8 RIGHTs.
C16_BoundedSearch ==
    /\ []((act.name = "OpenMenuAction" /\ (pc = "nav_loop" \/ ret /= NoReturn))
            => /\ SearchOrder
               /\ pc = "nav_loop" =>
                     /\ ~is_target_menu(TargetOf(act.params), frame)
                     /\ Len(reports) = Len(inputs)
               /\ (ret /= NoReturn /\ Len(inputs) >= 2) =>
                     /\ Len(ret.reports) = Len(inputs)
                     /\ ret.action_success \in {0, 0 - 1}
                     /\ ret.action_success = 0 - 1
                           => Len(inputs) = 1 + 2 * MENU_NAV_MAX_STEPS)
    /\ [][(pc = "nav_loop")
          => (/\ Len(inputs') = Len(inputs) + 1
              /\ is_target_menu(TargetOf(act.params), frame')
                    => (pc' = "idle" /\ ret' /= NoReturn
                        /\ ret'.action_success = 0)
              /\ ~is_target_menu(TargetOf(act.params), frame')
                    => IF Len(inputs') = 1 + 2 * MENU_NAV_MAX_STEPS
                       THEN (pc' = "idle" /\ ret' /= NoReturn
                             /\ ret'.action_success = 0 - 1)
                       ELSE pc' = "nav_loop")]_vars

C16_Witness ==
    /\ act.name = "OpenMenuAction"
    /\ act.params.option = "evidence"
    /\ ret /= NoReturn
    /\ ret.action_success = 0
    /\ Len(inputs) = 1 + MENU_NAV_MAX_STEPS + 3
    /\ inputs[Len(inputs)] = "PRESS_ARROW_LEFT"

(***************************************************************************)
(* Properties of the encodings                                             *)
(***************************************************************************)
Encoded(action) == pure_call.fn = action \o ".parameters_to_space"
Decoded(action) == pure_call.fn = action \o ".space_to_parameters"

\* the call returned a value, and the opposite encoding gave back the
\* argument of the call
InSpace(n) == pure_result.first /= <<>> /\ pure_result.first[1] \in 0..(n - 1)
BackToSpace == pure_result.second = <<pure_call.arg>>

\* C17: for MoveStepsAction, MenuAction, PuzzleAction and OpenMenuAction,
\* encoding a valid parameter set gives a value of Discrete(n) that decodes to
\* the same parameter set, and decoding a value of Discrete(n) gives a valid
\* parameter set that encodes to the same value.
C17_EncodeDecodeInverse ==
    /\ (Encoded("MoveStepsAction") /\ pure_call.arg.direction \in Directions
            /\ pure_call.arg.steps \in {<<n>> : n \in 1..HARD_MAX_STEPS})
        => /\ InSpace(MoveStepsAction_n)
           /\ pure_result.second /= <<>>
           /\ pure_result.second[1].direction = pure_call.arg.direction
           /\ <<pure_result.second[1].steps>> = pure_call.arg.steps
    /\ (Decoded("MoveStepsAction") /\ pure_call.arg \in 0..(MoveStepsAction_n - 1))
        => /\ pure_result.first /= <<>>
           /\ pure_result.first[1].direction \in Directions
           /\ pure_result.first[1].steps \in 1..HARD_MAX_STEPS
           /\ BackToSpace
    /\ (Encoded("MenuAction")
            /\ pure_call.arg.menu_action \in SeqRange(MENU_ACTION_KEYS))
        => InSpace(MenuAction_n) /\ pure_result.second = <<pure_call.arg>>
    /\ (Decoded("MenuAction") /\ pure_call.arg \in 0..(MenuAction_n - 1))
        => /\ pure_result.first /= <<>>
           /\ pure_result.first[1].menu_action \in SeqRange(MENU_ACTION_KEYS)
           /\ BackToSpace
    /\ (Encoded("PuzzleAction")
            /\ pure_call.arg.puzzle_action \in SeqRange(PUZZLE_ACTION_KEYS))
        => InSpace(PuzzleAction_n) /\ pure_result.second = <<pure_call.arg>>
    /\ (Decoded("PuzzleAction") /\ pure_call.arg \in 0..(PuzzleAction_n - 1))
        => /\ pure_result.first /= <<>>
           /\ pure_result.first[1].puzzle_action \in SeqRange(PUZZLE_ACTION_KEYS)
           /\ BackToSpace
    /\ (Encoded("OpenMenuAction") /\ pure_call.arg.option \in SeqRange(OPTIONS))
        => InSpace(OpenMenuAction_n) /\ pure_result.second = <<pure_call.arg>>
    /\ (Decoded("OpenMenuAction") /\ pure_call.arg \in 0..(OpenMenuAction_n - 1))
        => /\ pure_result.first /= <<>>
           /\ pure_result.first[1].option \in SeqRange(OPTIONS)
           /\ BackToSpace

\* the last value of MoveStepsAction's space decodes to the longest move to the
\* right and encodes back to itself
C17_Witness ==
    /\ Decoded("MoveStepsAction")
    /\ pure_call.arg = MoveStepsAction_n - 1
    /\ pure_result.first = <<[direction |-> "right", steps |-> HARD_MAX_STEPS]>>
    /\ pure_result.second = <<MoveStepsAction_n - 1>>

\* the call decoded a value that lies outside the action's space
OutOfSpace ==
    \/ \E a \in {"MoveStepsAction", "MenuAction", "PuzzleAction",
                 "OpenMenuAction"} :
          /\ Decoded(a)
          /\ pure_call.arg < 0 \/ pure_call.arg >= (CASE a = "MoveStepsAction" -> MoveStepsAction_n
                        [] a = "MenuAction" -> MenuAction_n
                        [] a = "PuzzleAction" -> PuzzleAction_n
                        [] OTHER -> OpenMenuAction_n)
    \/ /\ Decoded("MoveGridAction")
       /\ \E i \in 1..2 : \/ pure_call.arg[i] < MoveGridAction_low
                          \/ pure_call.arg[i] > MoveGridAction_high

\* C18: space_to_parameters returns None for every value outside the
\* action's space: an integer below 0 or from n on for the discrete actions, a
\* vector with a component outside [-10, 10] for MoveGridAction.
C18_OutOfSpaceIsNone ==
    OutOfSpace => pure_result.first = <<>>

(***************************************************************************)
(* Properties of the region catalogs                                       *)
(***************************************************************************)
Merged == pure_call.fn = "_get_proper_regions" /\ pure_result /= NoCall
NamesOf(catalog) == {catalog[i][1] : i \in DOMAIN catalog}

\* C19: in the merged catalog every overriding region appears as the override
\* gives it, every base region whose name is not overridden appears as the
\* base gives it, every name of either catalog appears exactly once and no
\* other name appears, and the same two catalogs in another order merge to
\* the same regions.
C19_OverrideLaw ==
    Merged =>
        LET override_regions == pure_call.override_regions
            base_regions == pure_call.base_regions
            proper_regions == pure_result.first
        IN  /\ \A region \in SeqRange(override_regions) :
                   region \in SeqRange(proper_regions)
            /\ \A region \in SeqRange(base_regions) :
                   region[1] \notin NamesOf(override_regions)
                       => region \in SeqRange(proper_regions)
            /\ NamesOf(proper_regions)
                   = NamesOf(override_regions) \cup NamesOf(base_regions)
            /\ \A i, j \in DOMAIN proper_regions :
                   proper_regions[i][1] = proper_regions[j][1] => i = j
            /\ SeqRange(pure_result.second) = SeqRange(proper_regions)

\* a merge where the override redefines the strip of the base with another
\* height, the base holds a second region, and the reordered base differs
C19_Witness ==
    /\ Merged
    /\ pure_call.override_regions = <<<<"menu_navigation_strip", 0, 0, 160, 12>>>>
    /\ pure_call.base_regions = << <<"screen", 0, 0, 160, 10>>,
                                   <<"menu_navigation_strip", 0, 0, 160, 10>> >>
    /\ pure_call.reordered_base /= pure_call.base_regions
    /\ pure_result.first = << <<"menu_navigation_strip", 0, 0, 160, 12>>,
                              <<"screen", 0, 0, 160, 10>> >>

(***************************************************************************)
(* Properties of the command strings                                       *)
(***************************************************************************)
Parsed == pure_call.fn = "string_to_high_level_action" /\ pure_result /= NoCall

\* a command of the flat grammar action_name(arg1,arg2,...), blanks aside: a
\* known name, one pair of parentheses that ends the string, and between
\* them nothing for the five commands without arguments, one direction for
\* movecursor, two integers for movegrid
NotBlank(c) == c /= " "
ZeroArgumentNames ==
    {"tickuntilstable", "openbuttonmenu", "closebuttonmenu",
     "selectmenuoption", "advancedialogue"}
IsInteger(piece) == piece /= <<>> /\ \A i \in DOMAIN piece : piece[i] = "1"
WellFormed(s) ==
    LET t == SelectSeq(lower(s), NotBlank)
        args == SubSeq(t, 3, Len(t) - 1)
    IN  /\ Len(t) >= 3
        /\ t[2] = "("
        /\ t[Len(t)] = ")"
        /\ "(" \notin SeqRange(args)
        /\ ")" \notin SeqRange(args)
        /\ \/ t[1] \in ZeroArgumentNames /\ args = <<>>
           \/ /\ t[1] = "movecursor"
              /\ Len(args) = 1
              /\ args[1] \in {"up", "down", "left", "right"}
           \/ /\ t[1] = "movegrid"
              /\ Len(split(args, ",")) = 2
              /\ IsInteger(split(args, ",")[1])
              /\ IsInteger(split(args, ",")[2])

\* C20: string_to_high_level_action gives the same answer for a string and
\* for the same string in upper case, answers (None, None) for every string
\* that is not a well-formed command (arguments given to a command that
\* takes none and text after the closing parenthesis included), and its
\* class is None exactly when its parameters are None.
C20_MalformedIsNone ==
    Parsed =>
        /\ pure_result.second = pure_result.first
        /\ ~WellFormed(pure_call.input_str) => pure_result.first = NoCommand
        /\ pure_result.first.class = None <=> pure_result.first.params = <<>>

(***************************************************************************)
(* Properties of written and re-read commands                              *)
(***************************************************************************)
Reread == pure_call.fn = "CommandString" /\ pure_result /= NoCall

\* C21: the command string written for a class of get_action_strings and a
\* parameter set of its grammar (none, a direction, a pair of integers of
\* either sign) parses back to exactly that class and those parameters; the
\* class is one of ACTIONS and no two classes share a command name.
C21_ControllerRoundTrip ==
    /\ \A c1, c2 \in DOMAIN get_action_strings :
           get_action_strings[c1] = get_action_strings[c2] => c1 = c2
    /\ Reread =>
          /\ pure_result.second = Command(pure_call.class, pure_call.params)
          /\ pure_result.second.class \in SeqRange(Controller_ACTIONS)

\* movegrid(-10,7) is written with its minus sign and read back
C21_Witness ==
    /\ Reread
    /\ pure_result.first = <<"movegrid", "(", "-", "1", "0", ",", "7", ")">>
    /\ pure_result.second =
           Command("MoveGrid", [x_steps |-> 0 - 10, y_steps |-> 7])

\* C22: once the emulator has reported termination during an action, the
\* action issues no further low-level input: every step taken while an
\* action is running and done is set leaves the inputs as they were.
C22_StopsOnTermination ==
    [][(done /\ pc /= "idle") => inputs' = inputs]_vars

(***************************************************************************)
(* Properties of the Movement Judge                                        *)
(***************************************************************************)
JudgedPair == pure_call.fn = "judge_movement" /\ pure_result /= NoCall

\* C23: the judge given the same frame twice answers (False, False),
\* whatever the quadrants and the player's cell of the frame hold.
C23_SameFrame ==
    (JudgedPair /\ pure_call.previous_frame = pure_call.current_frame)
        => pure_result.first = <<FALSE, "False">>

\* a flat room, whose quadrants are all uniform, judged against itself
C23_Witness ==
    /\ JudgedPair
    /\ pure_call.previous_frame = MkFrame("flat", 0, 1, {})
    /\ pure_call.current_frame = pure_call.previous_frame
    /\ \A q \in SeqRange(Quadrants) : pure_result.second[q].prev_uniform
    /\ pure_result.first = <<FALSE, "False">>

\* the two frames differ in the player's own cell and nowhere else
OnlyPlayerCellDiffers ==
    /\ pure_call.previous_frame.player /= pure_call.current_frame.player
    /\ pure_call.previous_frame.bg = pure_call.current_frame.bg
    /\ pure_call.previous_frame.off = pure_call.current_frame.off
    /\ pure_call.previous_frame.ind = pure_call.current_frame.ind

AllQuadrantsStaticAndNonUniform ==
    \A q \in SeqRange(Quadrants) :
        /\ pure_result.second[q].unchanged
        /\ ~pure_result.second[q].prev_uniform
        /\ ~pure_result.second[q].curr_uniform

\* C24: for two frames that differ only in the player's own (0, 0) cell,
\* with all four quadrants unchanged and non-uniform, the judge answers
\* (False, True).
C24_PlayerCellOnly ==
    (JudgedPair /\ OnlyPlayerCellDiffers /\ AllQuadrantsStaticAndNonUniform)
        => pure_result.first = <<FALSE, "True">>

\* the frames of the pair differ beyond epsilon
PairDiffers ==
    frame_changed(Screen(pure_call.previous_frame),
                  Screen(pure_call.current_frame))

\* some quadrant is unchanged between the frames and uniform in neither
SomeQuadrantFlagged ==
    \E q \in SeqRange(Quadrants) :
        /\ pure_result.second[q].unchanged
        /\ ~pure_result.second[q].prev_uniform
        /\ ~pure_result.second[q].curr_uniform

PlayerCellChanged ==
    frame_changed(<<Pixel(pure_call.previous_frame, 0, 0)>>,
                  <<Pixel(pure_call.current_frame, 0, 0)>>)

\* C25: for frames that differ beyond epsilon the judge answers (True, None)
\* exactly when no quadrant is both unchanged and non-uniform in both
\* captures; when one is, it answers (False, True) if the player's cell
\* changed and (False, False) if not.  A pair whose quadrants are all
\* uniform is judged as movement.
C25_JudgeOutcomes ==
    (JudgedPair /\ PairDiffers) =>
        /\ pure_result.first = <<TRUE, "None">> <=> ~SomeQuadrantFlagged
        /\ (SomeQuadrantFlagged /\ PlayerCellChanged)
              => pure_result.first = <<FALSE, "True">>
        /\ (SomeQuadrantFlagged /\ ~PlayerCellChanged)
              => pure_result.first = <<FALSE, "False">>
        /\ (\A q \in SeqRange(Quadrants) :
                pure_result.second[q].prev_uniform
                /\ pure_result.second[q].curr_uniform)
              => pure_result.first = <<TRUE, "None">>

\* a dialogue box appears over the tiled world: its quadrant changes, the
\* other three are flagged, the player's cell is the same
C25_Witness ==
    /\ JudgedPair
    /\ PairDiffers
    /\ SomeQuadrantFlagged
    /\ ~PlayerCellChanged
    /\ ~pure_result.second["screen_quadrant_4"].unchanged
    /\ pure_result.first = <<FALSE, "False">>

\* the interior cells of a quadrant: off the axes and off the one-cell border
InteriorCells(quadrant) ==
    {c \in GridCoords(mapper[quadrant]) :
        /\ c[1] * c[1] > 1 /\ c[1] * c[1] < GridHalf * GridHalf
        /\ c[2] * c[2] > 1 /\ c[2] * c[2] < GridHalf * GridHalf}

InteriorIdentical(f, quadrant) ==
    \A c, d \in InteriorCells(quadrant) :
        ~frame_changed(<<Pixel(f, c[1], c[2])>>, <<Pixel(f, d[1], d[2])>>)

\* C30: the judge treats a quadrant as uniform only if it is a single flat
\* colour or all of its interior cells are pairwise identical within
\* epsilon: a quadrant with two differing interior cells is never uniform.
C30_UniformMeansIdentical ==
    JudgedPair =>
        \A q \in SeqRange(Quadrants) :
            pure_result.second[q].prev_uniform
                => \/ IsFlat(capture_named_region(pure_call.previous_frame, q))
                   \/ InteriorIdentical(pure_call.previous_frame, q)

(***************************************************************************)
(* Properties of parser construction                                       *)
(***************************************************************************)
\* C26: constructing parsers, however many and with whatever
\* override_multi_targets, leaves the class-level COMMON_MULTI_TARGETS as it
\* was defined and leaves each caller's override mapping as it was passed.
C26_CatalogImmutable ==
    /\ COMMON_MULTI_TARGETS = COMMON_MULTI_TARGETS_defined
    /\ \A i \in DOMAIN parsers :
           parsers[i].override_after = parsers[i].override_multi_targets

\* C27: the targets of each region of a newly constructed parser are the
\* base targets, then that construction's own override targets, then
\* cursor_on_options for menu_box_strip, with no name twice; two
\* constructions with the same arguments have the same targets.
C27_TargetsIndependent ==
    /\ \A i \in DOMAIN parsers :
           \A key \in DOMAIN parsers[i].region_target_paths :
               LET targets == parsers[i].region_target_paths[key]
                   override == parsers[i].override_multi_targets
               IN  /\ targets =
                          (IF key \in DOMAIN COMMON_MULTI_TARGETS_defined
                           THEN COMMON_MULTI_TARGETS_defined[key] ELSE <<>>)
                          \o (IF key \in Keys(override)
                              THEN override[key] ELSE <<>>)
                          \o (IF key = "menu_box_strip"
                              THEN <<"cursor_on_options">> ELSE <<>>)
                   /\ \A a, b \in DOMAIN targets :
                          targets[a] = targets[b] => a = b
    /\ \A i, j \in DOMAIN parsers :
           parsers[i].override_multi_targets = parsers[j].override_multi_targets
               => parsers[i].region_target_paths = parsers[j].region_target_paths

(***************************************************************************)
(* Properties of TickUntilStable                                           *)
(***************************************************************************)
Ticking == pc = "tick_loop" /\ act.name = "TickUntilStable"

\* C28: TickUntilStable issues only ticks without input and never more than
\* max_ticks of them; a tick whose frame does not differ beyond epsilon
\* from the frame before it ends the action with 0, the max_ticks-th tick
\* ends it with -1 when its frame differs, and any other tick leaves it
\* running.
C28_TickUntilStable ==
    /\ [](Ticking => /\ Len(inputs) < act.params.max_ticks
                     /\ \A i \in DOMAIN inputs : inputs[i] = None)
    /\ [][Ticking =>
            /\ inputs' = Append(inputs, None)
            /\ IF ~ScreenChanged[frame][frame']
               THEN pc' = "idle" /\ ret'.action = "TickUntilStable"
                    /\ ret'.action_success = 0
               ELSE IF Len(inputs') = act.params.max_ticks
               THEN pc' = "idle" /\ ret'.action = "TickUntilStable"
                    /\ ret'.action_success = 0 - 1
               ELSE pc' = "tick_loop" /\ ret' = NoReturn]_vars

\* the screen changed at every one of two or more ticks and the action gave
\* up after max_ticks ticks
C28_Witness ==
    /\ pc = "idle"
    /\ ret /= NoReturn
    /\ ret.action = "TickUntilStable"
    /\ ret.action_success = 0 - 1
    /\ act.params.max_ticks >= 2
    /\ Len(inputs) = act.params.max_ticks

\* the second tick showed the frame of the first and the action ended with 0
C28_Witness_stable ==
    /\ pc = "idle"
    /\ ret /= NoReturn
    /\ ret.action = "TickUntilStable"
    /\ ret.action_success = 0
    /\ Len(inputs) = 2

(***************************************************************************)
(* Properties of the action_return of the movement actions                 *)
(***************************************************************************)
\* the ticks of one call of move that were judged as movement
MovedTicks == {i \in 1..Len(log) : ~log[i].done /\ log[i].moved}

\* the ticks of one call of move that were judged as a rotation in place
RotatedTicks == {i \in 1..Len(log) : ~log[i].done /\ log[i].rotated = "True"}

\* one call of move writes the number of its ticks judged as movement, and
\* True exactly when one of its ticks was judged a rotation, into its last
\* snapshot
MoveReportsItsOwnTicks ==
    pc = "after_move" =>
        /\ Reported = Cardinality(MovedTicks)
        /\ reports[Len(reports)].action_return[1].rotated = "True"
              <=> RotatedTicks /= {}

\* the snapshots of a returned list that carry an action_return, one for
\* each call of move the action made
Legs(transition_states) ==
    {i \in 1..Len(transition_states) :
        transition_states[i].action_return /= <<>>}

RECURSIVE StepsOver(_, _)
StepsOver(transition_states, legs) ==
    IF legs = {} THEN 0
    ELSE LET i == CHOOSE j \in legs : TRUE
         IN  transition_states[i].action_return[1].n_steps_taken
             + StepsOver(transition_states, legs \ {i})

RotatedOver(transition_states) ==
    \E i \in Legs(transition_states) :
        transition_states[i].action_return[1].rotated = "True"

MovementReturned ==
    /\ pc = "idle"
    /\ ret /= NoReturn
    /\ ret.action \in {"MoveStepsAction", "MoveGridAction"}

\* C29: the final snapshot returned by MoveStepsAction or MoveGridAction
\* carries the number of ticks of the whole action that were judged as
\* movement, and a rotation flag that is True exactly when some tick of the
\* whole action was judged a rotation in place.
C29_FinalSnapshotCarriesTotals ==
    MovementReturned =>
        LET final == ret.reports[Len(ret.reports)]
        IN  /\ final.action_return /= <<>>
            /\ final.action_return[1].n_steps_taken
                  = StepsOver(ret.reports, Legs(ret.reports))
            /\ final.action_return[1].rotated = "True"
                  <=> RotatedOver(ret.reports)

\* the same for MoveStepsAction alone, which calls move once
MoveStepsFinalSnapshotCarriesTotals ==
    (MovementReturned /\ ret.action = "MoveStepsAction")
        => /\ Legs(ret.reports) = {Len(ret.reports)}
           /\ C29_FinalSnapshotCarriesTotals

(***************************************************************************)
(* Properties of the tracker                                               *)
(***************************************************************************)
\* some action gated on FREE_ROAM, IN_MENU or IN_PUZZLE is valid
ModeGatedValid ==
    \/ \E direction \in Directions, steps \in 1..MaxSteps :
          MoveStepsAction_is_valid(direction, steps)
    \/ \E x_steps, y_steps \in (0 - MaxGridSteps)..MaxGridSteps :
          MoveGridAction_is_valid(x_steps, y_steps)
    \/ \E option \in SeqRange(OPTIONS) : OpenMenuAction_is_valid(option)
    \/ \E menu_action \in SeqRange(MENU_ACTION_KEYS) :
          MenuAction_is_valid(menu_action)
    \/ \E puzzle_action \in SeqRange(PUZZLE_ACTION_KEYS) :
          PuzzleAction_is_valid(puzzle_action)

\* the state after construction, before any action was called
Constructed == act = NoAction

\* a step of the environment's reset: only a reset clears the terminated
\* flag while no action is running
Resetting == pc = "idle" /\ done /\ ~done'

\* a step in which the emulator stepped: an input was added to the inputs of
\* the running action, or a one-input action ran as a whole
Stepping ==
    /\ inputs' /= <<>>
    /\ inputs' /= inputs \/ (pc = "idle" /\ ~done)

\* C31: after construction or reset and before the first step the tracked
\* mode is IN_DIALOGUE and no action gated on FREE_ROAM, IN_MENU or
\* IN_PUZZLE is valid; after every step the tracked mode is get_agent_state
\* of that step's frame and _previous_state is the mode tracked just before
\* the step.
C31_TrackerFollowsSteps ==
    /\ [](Constructed => current_state = IN_DIALOGUE /\ ~ModeGatedValid)
    /\ [][Resetting => (current_state = IN_DIALOGUE /\ ~ModeGatedValid)']_vars
    /\ [][Stepping => /\ current_state' = get_agent_state(frame')
                      /\ previous_state' = current_state]_vars

\* a menu action stepped from IN_MENU into a puzzle frame
C31_Witness ==
    /\ pc = "idle"
    /\ ret /= NoReturn
    /\ ret.action = "MenuAction"
    /\ previous_state = IN_MENU
    /\ current_state = IN_PUZZLE
    /\ get_agent_state(frame) = IN_PUZZLE

\* an episode was reset after an action had left the mode outside dialogue
C31_Witness_reset ==
    /\ act /= NoAction
    /\ pc = "idle"
    /\ ~done
    /\ ret /= NoReturn
    /\ ret.action = "MenuAction"
    /\ get_agent_state(frame) = FREE_ROAM
    /\ current_state = IN_DIALOGUE

(***************************************************************************)
(* InteractAction.  One press produces a sequence of frames; the last of   *)
(* them is the current frame afterwards.  log holds the frames of the      *)
(* press.                                                                  *)
(***************************************************************************)
\* how many frames one press may produce
MaxFrames == 3

\* the frames a press of A may produce: the world at rest, scrolled, with
\* the other player sprite, with a dialogue box, and the menu
PressFrames ==
    {MkFrame("tiles", 0, 1, {}), MkFrame("tiles", 1, 1, {}),
     MkFrame("tiles", 0, 2, {}),
     MkFrame("tiles", 0, 1, {"dialogue_bottom_right"}),
     MkFrame("flat", 0, 1, {"menu_top_left"})}

FrameSequences ==
    UNION {[1..n -> PressFrames] : n \in 0..MaxFrames}

RECURSIVE InteractLoop_ignores_repeats(_, _, _)
\* a loop that only looks for a frame outside free roam
InteractLoop_ignores_repeats(frames, i, prev_frames) ==
    IF i > Len(frames) THEN 0
    ELSE IF get_agent_state(frames[i]) /= FREE_ROAM THEN 1
    ELSE InteractLoop_ignores_repeats(frames, i + 1,
                                      Append(prev_frames, frames[i]))

RECURSIVE InteractLoop(_, _, _)
\* _execute, lines 153-166: the loop over the frames from frame i on
InteractLoop(frames, i, prev_frames) ==
    IF i > Len(frames) THEN 0
    ELSE IF get_agent_state(frames[i]) /= FREE_ROAM THEN 1
    ELSE IF \E j \in 1..Len(prev_frames) :
                ~ScreenChanged[prev_frames[j]][frames[i]]
    THEN 0 - 1
    ELSE InteractLoop(frames, i + 1, Append(prev_frames, frames[i]))

\* _execute, lines 151-170: the code the action returns
InteractAction_action_success(frames) ==
    LET action_success == InteractLoop(frames, 1, <<>>)
    IN  IF action_success = 0 THEN 0 - 1 ELSE action_success

\* _execute, lines 150-171
InteractAction_execute ==
    /\ \E frames \in FrameSequences, d \in BOOLEAN :
        /\ InteractAction_is_valid
        /\ BeginCall("InteractAction", NoParams)
        /\ DejaVuEmulator_step("PRESS_BUTTON_A",
                               IF frames = <<>> THEN frame
                               ELSE frames[Len(frames)], d)
        /\ inputs' = <<"PRESS_BUTTON_A">>
        /\ log' = frames
        /\ Return(act'.name, <<Snapshot(1)>>,
                  InteractAction_action_success(frames))
    /\ UNCHANGED <<mv, probeVars, pureVars, classVars, reportVars, menu_strip>>

\* InteractAction among the actions that bring the tracker to FREE_ROAM
NextInteract ==
    \/ InteractAction_execute
    \/ TickUntilStable_execute
    \/ TickUntilStable_tick
    \/ Reset

SpecInteract == Init /\ [][NextInteract]_vars

(***************************************************************************)
(* Properties of InteractAction                                            *)
(***************************************************************************)
Interacted == pc = "idle" /\ ret /= NoReturn /\ ret.action = "InteractAction"

\* frame j of the press is a free-roam frame that does not differ beyond
\* epsilon from an earlier frame of the press
RepeatsEarlier(j) ==
    /\ get_agent_state(log[j]) = FREE_ROAM
    /\ \E k \in 1..(j - 1) : ~frame_changed(Screen(log[k]), Screen(log[j]))

\* frame i of the press is outside free roam and no frame before it repeats
LeavesFreeRoamFirst(i) ==
    /\ get_agent_state(log[i]) /= FREE_ROAM
    /\ \A j \in 1..(i - 1) : ~RepeatsEarlier(j)

\* C32: InteractAction issues exactly one A press; it returns 1 exactly when
\* some frame of that press is classified outside FREE_ROAM before any
\* free-roam frame of the press repeats an earlier one within epsilon, and
\* -1 in every other case, an empty frame sequence included; never 0.
C32_InteractOutcome ==
    Interacted =>
        /\ inputs = <<"PRESS_BUTTON_A">>
        /\ ret.action_success \in {1, 0 - 1}
        /\ ret.action_success = 1
              <=> \E i \in 1..Len(log) : LeavesFreeRoamFirst(i)

\* a press whose third frame opens a dialogue after the second repeated the
\* first: -1 although a frame outside free roam was produced
C32_Witness ==
    /\ Interacted
    /\ Len(log) = 3
    /\ get_agent_state(log[3]) /= FREE_ROAM
    /\ RepeatsEarlier(2)
    /\ ret.action_success = 0 - 1

\* a press that ends outside free roam after two distinct free-roam frames
C32_Witness_success ==
    /\ Interacted
    /\ Len(log) = 3
    /\ LeavesFreeRoamFirst(3)
    /\ ret.action_success = 1

\* a press that produced no frame
C32_Witness_empty ==
    /\ Interacted
    /\ log = <<>>
    /\ ret.action_success = 0 - 1

(***************************************************************************)
(* DejaVuEmulator.step seen from both sides: what it passes to the Frame   *)
(* Source and what it hands back to its caller.  pure_result records the   *)
(* last call.                                                              *)
(***************************************************************************)
\* the frames one tick of the Frame Source may render: the world, the world
\* with a dialogue box, the menu
TickFrames ==
    {MkFrame("tiles", 0, 1, {}),
     MkFrame("tiles", 0, 1, {"dialogue_bottom_right"}),
     MkFrame("flat", 0, 1, {"menu_top_left"})}

\* the non-empty frame sequences of one tick; the last one is the frame
\* after the tick
TickSequences == UNION {[1..n -> TickFrames] : n \in 1..MaxFrames}

StepInputs == {None, "PRESS_BUTTON_A", "PRESS_BUTTON_B", "PRESS_ARROW_UP"}

Last(q) == q[Len(q)]

\* what one call of step did: the inputs the Frame Source received, what
\* the Frame Source answered to the first of them, and what step returned
StepRecord(action, presses, frames, d, returned_frames, returned_done) ==
    [action |-> action, presses |-> presses,
     source |-> [frames |-> frames, done |-> d],
     returned |-> [frames |-> returned_frames, done |-> returned_done]]

\* a step with the dialogue auto-skip enabled for one further press of B
DejaVuEmulator_step_call_auto_skip ==
    /\ pc = "idle"
    /\ \E action \in StepInputs, frames \in TickSequences, d \in BOOLEAN,
          next_frames \in TickSequences :
        IF get_agent_state(Last(frames)) = IN_DIALOGUE
        THEN /\ frame' = Last(next_frames)
             /\ done' = d
             /\ TrackerStepOn(Last(frames))
             /\ pure_result' = StepRecord(action, <<action, "PRESS_BUTTON_B">>,
                                          frames, d, frames \o next_frames, d)
        ELSE /\ DejaVuEmulator_step(action, Last(frames), d)
             /\ pure_result' = StepRecord(action, <<action>>, frames, d,
                                          frames, d)
    /\ UNCHANGED <<callVars, probeVars, pure_call, classVars, reportVars, menu_strip>>

\* step, lines 24-65: super().step(action); the auto-skip block is under
\* `if False`, all_next_frames keeps its one element, frames and done are
\* returned as received
DejaVuEmulator_step_call ==
    /\ pc = "idle"
    /\ \E action \in StepInputs, frames \in TickSequences, d \in BOOLEAN :
        /\ DejaVuEmulator_step(action, Last(frames), d)
        /\ pure_result' = StepRecord(action, <<action>>, frames, d, frames, d)
    /\ UNCHANGED <<callVars, probeVars, pure_call, classVars, reportVars, menu_strip>>

NextEmulator == DejaVuEmulator_step_call

SpecEmulator == Init /\ [][NextEmulator]_vars

(***************************************************************************)
(* Properties of DejaVuEmulator.step                                       *)
(***************************************************************************)
Stepped == pure_result /= NoCall

GridPlan(params) ==
    [i \in 1..(Abs(params.x_steps) + Abs(params.y_steps)) |->
        IF i <= Abs(params.x_steps)
        THEN (IF params.x_steps > 0 THEN "PRESS_ARROW_RIGHT"
              ELSE "PRESS_ARROW_LEFT")
        ELSE (IF params.y_steps > 0 THEN "PRESS_ARROW_DOWN"
              ELSE "PRESS_ARROW_UP")]

InMoveGrid == act.name = "MoveGrid" /\ pc = "grid_loop"

\* one step of a running MoveGrid that follows the plan: the next input of
\* the plan is issued and one snapshot appended; an unchanged frame ends the
\* action with -1, the last input of the plan ends it with 0
GridStepFollowsPlan ==
    LET plan == GridPlan(act.params)
        n == Len(inputs) + 1
    IN  /\ n <= Len(plan)
        /\ inputs' = Append(inputs, plan[n])
        /\ IF ~ScreenChanged[frame][frame']
           THEN /\ pc' = "idle"
                /\ ret'.action_success = 0 - 1
                /\ Len(ret'.reports) = n
           ELSE IF n = Len(plan)
           THEN /\ pc' = "idle"
                /\ ret'.action_success = 0
                /\ Len(ret'.reports) = n
           ELSE /\ pc' = "grid_loop"
                /\ Len(reports') = n

\* C34: MoveGrid issues its |x_steps| horizontal inputs (right if positive,
\* left if negative) before its |y_steps| vertical inputs (down if
\* positive, up if negative), appends one snapshot per input, returns -1
\* right after the first input that leaves the frame unchanged, and returns
\* 0 with |x_steps| + |y_steps| snapshots when every input changed the
\* frame.
C34_MoveGridFollowsPlan == [][InMoveGrid => GridStepFollowsPlan]_vars

\* the same for a MoveGrid whose lookup of _ACTION_MAP succeeds
MoveGridFollowsPlanWhenFound ==
    [][(InMoveGrid /\ exe.found) => GridStepFollowsPlan]_vars

\* a MoveGrid over both axes that returned 0 after two inputs
MoveGridCompleted ==
    /\ pc = "idle"
    /\ ret /= NoReturn
    /\ ret.action = "MoveGrid"
    /\ ret.action_success = 0
    /\ inputs = <<"PRESS_ARROW_LEFT", "PRESS_ARROW_DOWN">>
    /\ Len(ret.reports) = 2

(***************************************************************************)
(* ExecutionReport (execution/report.py) over the history of its           *)
(* environment.  A history is the sequence of its entries, entry i being   *)
(* the i-th the environment recorded.  The report record also keeps what   *)
(* the last call on it did and how often _close was called.                *)
(***************************************************************************)
\* how many entries the environment's history may reach
MaxHistory == 4

\* how many times _close is called on the report
MaxCloses == 2

\* history[start:] for a start index from 0
Slice(history, start) == SubSeq(history, start + 1, Len(history))

\* __init__ (lines 20-45) assigns self._history; get_history and _close read
\* and write self.history.  The read finds an attribute only if a subclass
\* defines one (the class is abstract and its subclasses are not part of
\* the sources); otherwise it raises AttributeError.  Both outcomes are
\* kept.
ExecutionReport_has_history == BOOLEAN

ExitReasonings == {"goal reached", "stuck"}

\* Environment.step appends one entry to the history
Environment_step ==
    /\ Len(environment_history) < MaxHistory
    /\ environment_history' =
           Append(environment_history, Len(environment_history) + 1)
    /\ UNCHANGED <<emuVars, trackerVars, callVars, probeVars, pureVars,
                   classVars, report, menu_strip>>

\* __init__, lines 20-45
ExecutionReport_init ==
    /\ report = NoReport
    /\ \E has_history \in ExecutionReport_has_history :
        report' = [live |-> TRUE,
                   has_history |-> has_history,
                   history_starting_index |-> Len(environment_history) - 1,
                   history |-> <<>>,
                   exit_reasoning |-> <<>>,
                   closes |-> 0,
                   closed_at |-> 0,
                   last |-> [op |-> None]]
    /\ UNCHANGED <<emuVars, trackerVars, callVars, probeVars, pureVars,
                   classVars, environment_history, menu_strip>>

\* get_history, lines 55-60, as a value: <<>> when the attribute lookup
\* raises, else the history it returns
get_history(r, environment) ==
    IF ~r.has_history THEN <<>>
    ELSE IF r.history = <<>>
    THEN <<Slice(environment, r.history_starting_index)>>
    ELSE r.history

\* a call of get_history
ExecutionReport_get_history ==
    /\ report.live
    /\ LET history == get_history(report, environment_history)
       IN  report' = [report EXCEPT !.last =
               [op |-> "get_history",
                outcome |-> IF history = <<>> THEN "AttributeError"
                            ELSE "returned",
                value |-> history,
                at |-> Len(environment_history)]]
    /\ UNCHANGED <<emuVars, trackerVars, callVars, probeVars, pureVars,
                   classVars, environment_history, menu_strip>>

\* _close, lines 100-105: the exit reasoning is stored first; the test of
\* self.history raises when the attribute is missing; on a closed report
\* log_error is called, and whether it raises or returns the stored history
\* keeps its value (line 105 stores a copy of it)
ExecutionReport_close ==
    /\ report.live
    /\ report.closes < MaxCloses
    /\ \E exit_reasoning \in ExitReasonings :
        LET outcome == IF ~report.has_history THEN "AttributeError"
                       ELSE IF report.history /= <<>> THEN "log_error"
                       ELSE "returned"
        IN  report' = [report EXCEPT
                !.exit_reasoning = <<exit_reasoning>>,
                !.history = IF outcome = "returned"
                            THEN get_history(report, environment_history)
                            ELSE @,
                !.closes = @ + 1,
                !.closed_at = IF report.closes = 0
                              THEN Len(environment_history) ELSE @,
                !.last = [op |-> "_close", outcome |-> outcome,
                          value |-> <<exit_reasoning>>,
                          at |-> Len(environment_history)]]
    /\ UNCHANGED <<emuVars, trackerVars, callVars, probeVars, pureVars,
                   classVars, environment_history, menu_strip>>

NextReport ==
    \/ Environment_step
    \/ ExecutionReport_init
    \/ ExecutionReport_get_history
    \/ ExecutionReport_close

SpecReport == Init /\ [][NextReport]_vars

(***************************************************************************)
(* Properties of ExecutionReport                                           *)
(***************************************************************************)
\* the environment's history from the report's starting index up to entry n
HistoryUpTo(n) ==
    SubSeq(environment_history, report.history_starting_index + 1, n)

CloseOnceLifecycle ==
    /\ (report.last.op = "get_history" /\ report.closes = 0)
          => /\ report.last.outcome = "returned"
             /\ report.last.value = <<HistoryUpTo(report.last.at)>>
    /\ (report.last.op = "_close" /\ report.closes = 1)
          => /\ report.last.outcome = "returned"
             /\ report.exit_reasoning = report.last.value
    /\ report.closes >= 1
          => report.history = <<HistoryUpTo(report.closed_at)>>
    /\ (report.last.op = "get_history" /\ report.closes >= 1)
          => /\ report.last.outcome = "returned"
             /\ report.last.value = <<HistoryUpTo(report.closed_at)>>
    /\ (report.last.op = "_close" /\ report.closes >= 2)
          => report.last.outcome = "log_error"

\* C35: before _close, get_history returns the environment's live history
\* from the report's starting index; _close records the exit reasoning and
\* freezes that history; after _close, get_history returns the frozen
\* history, which later environment steps do not change; a second _close is
\* reported as an error.
C35_CloseOnce == report.live => CloseOnceLifecycle

\* the same for a report whose class defines the attribute history
CloseOnceWhenAttributeDefined ==
    (report.live /\ report.has_history) => CloseOnceLifecycle

\* a closed report asked for its history after the environment moved on
ClosedReportRead ==
    /\ report.live
    /\ report.has_history
    /\ report.closes = 1
    /\ report.last.op = "get_history"
    /\ report.last.at > report.closed_at
    /\ report.closed_at > report.history_starting_index + 1
    /\ report.last.value = report.history

(***************************************************************************)
(* Properties of the mode gates                                            *)
(***************************************************************************)
\* the answers of each gate over its well-formed parameters
MoveStepsAction_answers ==
    {MoveStepsAction_is_valid(direction, steps) :
        direction \in Directions, steps \in 1..MaxSteps}

MenuAction_answers ==
    {MenuAction_is_valid(menu_action) :
        menu_action \in SeqRange(MENU_ACTION_KEYS)}

PuzzleAction_answers ==
    {PuzzleAction_is_valid(puzzle_action) :
        puzzle_action \in SeqRange(PUZZLE_ACTION_KEYS)}

\* the gates that are open when the four gates answer as given
OpenGates(move, menu, puzzle, dialogue) ==
    {gate \in {"MoveStepsAction", "MenuAction", "PuzzleAction",
               "AdvanceDialogue"} :
        \/ gate = "MoveStepsAction" /\ move
        \/ gate = "MenuAction" /\ menu
        \/ gate = "PuzzleAction" /\ puzzle
        \/ gate = "AdvanceDialogue" /\ dialogue}

\* the gates open for one choice of parameters
OpenGatesFor(direction, steps, menu_action, puzzle_action) ==
    OpenGates(MoveStepsAction_is_valid(direction, steps),
              MenuAction_is_valid(menu_action),
              PuzzleAction_is_valid(puzzle_action),
              AdvanceDialogue_is_valid)

\* C36: in every reachable state of the tracker exactly one of the four
\* mode gates is open: whatever well-formed parameters MoveStepsAction,
\* MenuAction and PuzzleAction are asked about, exactly one of their
\* answers and AdvanceDialogue's is true.
C36_ExactlyOneGate ==
    \A move \in MoveStepsAction_answers, menu \in MenuAction_answers,
       puzzle \in PuzzleAction_answers :
        Cardinality(OpenGates(move, menu, puzzle,
                              AdvanceDialogue_is_valid)) = 1

\* a menu action led into a puzzle: only the puzzle gate is open
C36_Witness ==
    /\ pc = "idle"
    /\ ret /= NoReturn
    /\ ret.action = "MenuAction"
    /\ current_state = IN_PUZZLE
    /\ OpenGatesFor("up", 1, "confirm", "confirm") = {"PuzzleAction"}

\* every gate is the open one in some reachable state
GateOpen_MoveStepsAction == OpenGatesFor("up", 1, "up", "up") = {"MoveStepsAction"}
GateOpen_MenuAction == OpenGatesFor("up", 1, "up", "up") = {"MenuAction"}
GateOpen_AdvanceDialogue ==
    /\ act /= NoAction
    /\ OpenGatesFor("up", 1, "up", "up") = {"AdvanceDialogue"}

(***************************************************************************)
(* Properties of the ticks of move                                         *)
(***************************************************************************)
JudgeOutcomes == {<<FALSE, "False">>, <<FALSE, "True">>, <<TRUE, "None">>}

\* what the judge said at the ticks of this move that were judged
JudgedWellFormed ==
    \A i \in 1..Len(log) :
        ~log[i].done => <<log[i].moved, log[i].rotated>> \in JudgeOutcomes

\* a step of the loop of move: one more tick in the log
MoveTicking == pc = "move_loop" /\ Len(log') = Len(log) + 1

\* the three things a tick may do
Increments == mv'.n_successful_steps = mv.n_successful_steps + 1
SetsRotation == log'[Len(log')].rotated = "True" /\ mv'.has_rotated = "True"
StopsLoop == pc' = "move_exit"

ExactlyOneOf(a, b, c) ==
    (a /\ ~b /\ ~c) \/ (~a /\ b /\ ~c) \/ (~a /\ ~b /\ c)

\* C37: judge_movement never reports movement and rotation together, its
\* result being (False, False), (False, True) or (True, None); so each tick
\* of move increments the step count, or sets the rotation flag, or stops
\* the loop, and never two of these; n_steps_taken never exceeds the number
\* of inputs issued.
C37_TickDoesOneThing ==
    /\ [](\A previous_frame, current_frame \in SourceFrames :
            Judged[previous_frame][current_frame] \in JudgeOutcomes)
    /\ [](mv.live => /\ JudgedWellFormed
                     /\ mv.n_successful_steps <= Len(log))
    /\ [][MoveTicking => ExactlyOneOf(Increments, SetsRotation, StopsLoop)]_vars

\* the same, with the exclusion of two effects claimed only for ticks
\* after which the mode is still FREE_ROAM, and never for counting and
\* rotating together
TickDoesOneThingInFreeRoam ==
    /\ [](\A previous_frame, current_frame \in SourceFrames :
            Judged[previous_frame][current_frame] \in JudgeOutcomes)
    /\ [](mv.live => /\ JudgedWellFormed
                     /\ mv.n_successful_steps <= Len(log))
    /\ [][MoveTicking =>
            /\ Increments \/ SetsRotation \/ StopsLoop
            /\ ~(Increments /\ SetsRotation)
            /\ (done' \/ get_agent_state(frame') = FREE_ROAM)
                  => ExactlyOneOf(Increments, SetsRotation, StopsLoop)]_vars

\* a tick judged as movement that left free roam: counted, and the loop
\* stopped
CountedAndStopped ==
    /\ pc = "move_exit"
    /\ Len(log) >= 1
    /\ Diverting(log[Len(log)])
    /\ log[Len(log)].moved
    /\ mv.n_successful_steps = Len(log)

(***************************************************************************)
(* frame_changed as a pure function of two equally shaped 8-bit buffers.   *)
(***************************************************************************)
\* the buffers compared: whole screens, and single cells at the ends of the
\* 8-bit range
PixelBuffers ==
    {Screen(f) : f \in JudgeFrames} \cup {<<v>> : v \in {0, 1, 255}}

InitFrameChanged ==
    /\ frame = MkFrame("flat", 0, 1, {})
    /\ done = FALSE
    /\ current_state = IN_DIALOGUE
    /\ previous_state = IN_DIALOGUE
    /\ pc = "idle"
    /\ act = NoAction
    /\ exe = NoLocals
    /\ mv = NoLocals
    /\ reports = <<>>
    /\ ret = NoReturn
    /\ inputs = <<>>
    /\ log = <<>>
    /\ probe = IndFrame({})
    /\ cls = NoResults
    /\ first_cls = NoResults
    /\ \E a \in PixelBuffers, b \in PixelBuffers :
          /\ Len(a) = Len(b)
          /\ pure_call = [fn |-> "frame_changed", a |-> a, b |-> b]
    /\ pure_result = NoCall
    /\ InitClass
    /\ InitReport
    /\ InitStrip

\* frame_changed(a, b), frame_changed(b, a) and frame_changed(a, a)
frame_changed_call ==
    /\ pure_call.fn = "frame_changed"
    /\ pure_result = NoCall
    /\ pure_result' =
           [first |-> frame_changed(pure_call.a, pure_call.b),
            second |-> frame_changed(pure_call.b, pure_call.a),
            self |-> frame_changed(pure_call.a, pure_call.a)]
    /\ UNCHANGED <<emuVars, trackerVars, callVars, probeVars, pure_call,
                   classVars, reportVars, menu_strip>>

NextFrameChanged == frame_changed_call

SpecFrameChanged == InitFrameChanged /\ [][NextFrameChanged]_vars

(***************************************************************************)
(* Properties of frame_changed                                             *)
(***************************************************************************)
RECURSIVE SumDistance(_, _, _, _)
\* the sum over the pixels lo..hi of |a - b| computed in the integers
SumDistance(a, b, lo, hi) ==
    IF lo > hi THEN 0
    ELSE IF lo = hi THEN Abs(a[lo] - b[lo])
    ELSE LET mid == (lo + hi) \div 2
         IN  SumDistance(a, b, lo, mid) + SumDistance(a, b, mid + 1, hi)

\* the mean absolute pixel difference is above epsilon = 0.01
MeanDistanceAboveEpsilon(a, b) ==
    SumDistance(a, b, 1, Len(a)) * 100 > Len(a)

FrameChangedCalled == pure_call.fn = "frame_changed" /\ pure_result /= NoCall

\* C38: on equally shaped 8-bit buffers a and b, frame_changed(a, b) equals
\* frame_changed(b, a), frame_changed(a, a) is False, and the result is
\* 'mean absolute pixel difference > epsilon' with the difference taken
\* without wrapping modulo 256.
C38_FrameChangedSymmetric ==
    FrameChangedCalled =>
        /\ pure_result.first = pure_result.second
        /\ pure_result.self = FALSE
        /\ pure_result.first = MeanDistanceAboveEpsilon(pure_call.a, pure_call.b)

\* frame_changed(a, a) is False on every buffer
FrameChangedReflexiveFalse == FrameChangedCalled => pure_result.self = FALSE

\* two screens that differ by one level in one pixel, compared both ways
OneLevelApart ==
    /\ FrameChangedCalled
    /\ Len(pure_call.a) > 100
    /\ SumDistance(pure_call.a, pure_call.b, 1, Len(pure_call.a)) = 1
    /\ pure_result.first /= pure_result.second

(***************************************************************************)
(* Encoding what is_valid accepted.  A caller asks is_valid in the tracked *)
(* mode and, when the answer is true, encodes the same parameters with     *)
(* parameters_to_space; pure_call and pure_result record that call.        *)
(***************************************************************************)
\* the call is made once, between two actions
Encoding(fn, arg, space_action) ==
    /\ pc = "idle"
    /\ pure_result = NoCall
    /\ pure_call' = [fn |-> fn, arg |-> arg]
    /\ pure_result' = [first |-> space_action, second |-> current_state]
    /\ UNCHANGED <<emuVars, trackerVars, callVars, probeVars, classVars,
                   reportVars, menu_strip>>

MoveStepsAction_encode_valid ==
    \E direction \in DirectionArgs, steps \in StepsArgs :
        /\ steps /= <<>>
        /\ MoveStepsAction_is_valid(direction, steps[1])
        /\ Encoding("MoveStepsAction",
                    [direction |-> direction, steps |-> steps[1]],
                    MoveStepsAction_parameters_to_space(direction, steps))

MoveGridAction_encode_valid ==
    \E x_steps \in ComponentArgs, y_steps \in ComponentArgs :
        /\ MoveGridAction_is_valid(x_steps, y_steps)
        /\ Encoding("MoveGridAction",
                    [x_steps |-> x_steps, y_steps |-> y_steps],
                    MoveGridAction_parameters_to_space(x_steps, y_steps))

OpenMenuAction_encode_valid ==
    \E option \in OptionArgs :
        /\ OpenMenuAction_is_valid(option)
        /\ Encoding("OpenMenuAction", [option |-> option],
                    OpenMenuAction_parameters_to_space(option))

MenuAction_encode_valid ==
    \E menu_action \in SubCommandArgs \ {None} :
        /\ MenuAction_is_valid(menu_action)
        /\ Encoding("MenuAction", [menu_action |-> menu_action],
                    MenuAction_parameters_to_space(menu_action))

PuzzleAction_encode_valid ==
    \E puzzle_action \in SubCommandArgs \ {None} :
        /\ PuzzleAction_is_valid(puzzle_action)
        /\ Encoding("PuzzleAction", [puzzle_action |-> puzzle_action],
                    PuzzleAction_parameters_to_space(puzzle_action))

\* the encodings, with the dialogue action that takes the tracker out of
\* its initial mode
NextEncode ==
    \/ AdvanceDialogue_execute
    \/ Reset
    \/ MoveStepsAction_encode_valid
    \/ MoveGridAction_encode_valid
    \/ OpenMenuAction_encode_valid
    \/ MenuAction_encode_valid
    \/ PuzzleAction_encode_valid

SpecEncode == Init /\ [][NextEncode]_vars

(***************************************************************************)
(* Properties of the encodings of valid parameters                         *)
(***************************************************************************)
\* the declared space of each action: Discrete(n) or the Box of MoveGridAction
InDeclaredSpace(fn, space_action) ==
    IF fn = "MoveStepsAction" THEN space_action \in 0..(MoveStepsAction_n - 1)
    ELSE IF fn = "MoveGridAction"
    THEN \A i \in 1..2 :
            space_action[i] \in MoveGridAction_low..MoveGridAction_high
    ELSE IF fn = "OpenMenuAction" THEN space_action \in 0..(OpenMenuAction_n - 1)
    ELSE IF fn = "MenuAction" THEN space_action \in 0..(MenuAction_n - 1)
    ELSE space_action \in 0..(PuzzleAction_n - 1)

EncodedValid ==
    /\ pure_result /= NoCall
    /\ pure_call.fn \in {"MoveStepsAction", "MoveGridAction", "OpenMenuAction",
                         "MenuAction", "PuzzleAction"}

\* C39: for every action and every parameter set that is_valid accepts in
\* the tracked mode, parameters_to_space returns a value, not None, inside
\* the action's declared space: MoveStepsAction accepts no step count it
\* cannot encode in Discrete(80) and MoveGridAction no component outside
\* [-10, 10].
C39_EncodingTotalOnValid ==
    EncodedValid =>
        /\ pure_result.first /= <<>>
        /\ InDeclaredSpace(pure_call.fn, pure_result.first[1])

\* the same for the three actions over a finite list of names
EncodingTotalOnValidNames ==
    (EncodedValid /\ pure_call.fn \in {"OpenMenuAction", "MenuAction",
                                       "PuzzleAction"})
        => /\ pure_result.first /= <<>>
           /\ InDeclaredSpace(pure_call.fn, pure_result.first[1])

\* a valid menu action was encoded while the menu was open
MenuActionEncoded ==
    /\ EncodedValid
    /\ pure_call.fn = "MenuAction"
    /\ pure_result.second = IN_MENU
    /\ pure_result.first = <<2>>

\* a step count above HARD_MAX_STEPS was accepted and encoded as None
StepsAcceptedNotEncoded ==
    /\ EncodedValid
    /\ pure_call.fn = "MoveStepsAction"
    /\ pure_call.arg.steps = HARD_MAX_STEPS + 1
    /\ pure_result.first = <<>>

\* a component outside the box was accepted and encoded outside the box
ComponentAcceptedOutsideBox ==
    /\ EncodedValid
    /\ pure_call.fn = "MoveGridAction"
    /\ pure_call.arg.x_steps = MoveGridAction_high + 1
    /\ pure_result.first = <<<<MoveGridAction_high + 1, pure_call.arg.y_steps>>>>

(***************************************************************************)
(* OpenMenuAction on a Frame Source whose menu is a strip of sections: the *)
(* menu opens on one section, RIGHT and LEFT move the cursor one section   *)
(* and stay at the ends.  One section of the strip is the target.          *)
(***************************************************************************)
\* the number of sections of the strip
StripLength == 10

Sections == {"case_notes", "evidence", "location"}

\* the frame of the open menu on the target section, and on any other
TargetFrame(option) ==
    CHOOSE f \in MenuFrames :
        is_target_menu(option, f) /\ Cardinality(f.ind) = 2

OtherFrame == MkFrame("flat", 0, 1, {"menu_top_left"})

StripFrame(menu, position) ==
    IF position = menu.target_at THEN TargetFrame(menu.target)
    ELSE OtherFrame

RECURSIVE CursorAfter(_, _)
\* where the cursor is after the inputs of the call: START opens the menu
\* on its opening section, RIGHT and LEFT move it within the strip
CursorAfter(menu, q) ==
    IF Len(q) <= 1 THEN menu.opens_at
    ELSE LET cursor == CursorAfter(menu, SubSeq(q, 1, Len(q) - 1))
         IN  IF q[Len(q)] = "PRESS_ARROW_RIGHT"
             THEN (IF cursor < menu.length THEN cursor + 1 ELSE cursor)
             ELSE IF q[Len(q)] = "PRESS_ARROW_LEFT"
             THEN (IF cursor > 1 THEN cursor - 1 ELSE cursor)
             ELSE cursor

InitMenuStrip ==
    /\ frame = MkFrame("flat", 0, 1, {})
    /\ done = FALSE
    /\ current_state = IN_DIALOGUE
    /\ previous_state = IN_DIALOGUE
    /\ pc = "idle"
    /\ act = NoAction
    /\ exe = NoLocals
    /\ mv = NoLocals
    /\ reports = <<>>
    /\ ret = NoReturn
    /\ inputs = <<>>
    /\ log = <<>>
    /\ probe = IndFrame({})
    /\ cls = NoResults
    /\ first_cls = NoResults
    /\ pure_call = NoCall
    /\ pure_result = NoCall
    /\ InitClass
    /\ InitReport
    /\ \E target \in Sections, target_at \in 1..StripLength,
          opens_at \in 1..StripLength :
          menu_strip = [live |-> TRUE, length |-> StripLength,
                        target |-> target, target_at |-> target_at,
                        opens_at |-> opens_at]

\* the opening dialogue ends and the world is shown
DialogueEnds ==
    /\ AdvanceDialogue_execute
    /\ frame' = MkFrame("flat", 0, 1, {})
    /\ ~done'

\* OpenMenuAction is asked for the strip's target; START opens the menu
OpenMenuAction_execute_on_strip ==
    /\ OpenMenuAction_execute
    /\ act'.params.option = menu_strip.target
    /\ frame' = StripFrame(menu_strip, CursorAfter(menu_strip, inputs'))

\* a nudge moves the cursor of the strip
OpenMenuAction_nudge_on_strip ==
    /\ OpenMenuAction_nudge
    /\ frame' = StripFrame(menu_strip, CursorAfter(menu_strip, inputs'))

NextMenuStrip ==
    \/ DialogueEnds
    \/ OpenMenuAction_execute_on_strip
    \/ OpenMenuAction_nudge_on_strip

SpecMenuStrip == InitMenuStrip /\ [][NextMenuStrip]_vars

(***************************************************************************)
(* Properties of OpenMenuAction on a strip                                 *)
(***************************************************************************)
\* the target is within MENU_NAV_MAX_STEPS nudges of the opening section
TargetNear ==
    Abs(menu_strip.target_at - menu_strip.opens_at) <= MENU_NAV_MAX_STEPS

ReturnedFromStrip ==
    /\ menu_strip.live
    /\ pc = "idle"
    /\ ret /= NoReturn
    /\ ret.action = "OpenMenuAction"

\* C40: on a menu strip without wrap-around where each nudge moves one
\* section, an OpenMenuAction whose target section lies within
\* MENU_NAV_MAX_STEPS nudges of the section shown on opening, to the right
\* or to the left, returns 0 (the search being bounded, it always returns).
C40_FindsNearbySection ==
    (ReturnedFromStrip /\ TargetNear) => ret.action_success = 0

\* the same for a target on the opening section or to its right
FindsSectionToTheRight ==
    (/\ ReturnedFromStrip
     /\ TargetNear
     /\ menu_strip.target_at >= menu_strip.opens_at) => ret.action_success = 0

\* the same for a target to the left that is still within reach after the
\* excursion to the right: the RIGHT nudges that moved the cursor and the
\* distance to the target together stay within MENU_NAV_MAX_STEPS
FindsSectionToTheLeftWithinReach ==
    (/\ ReturnedFromStrip
     /\ menu_strip.target_at < menu_strip.opens_at
     /\ (menu_strip.length - menu_strip.opens_at)
            + (menu_strip.opens_at - menu_strip.target_at)
          <= MENU_NAV_MAX_STEPS) => ret.action_success = 0

\* a target one section to the left was found after the cursor had been to
\* the right end
FoundToTheLeft ==
    /\ ReturnedFromStrip
    /\ menu_strip.target_at = menu_strip.opens_at - 1
    /\ ret.action_success = 0
    /\ inputs[Len(inputs)] = "PRESS_ARROW_LEFT"

\* a target one section to the left was missed
MissedToTheLeft ==
    /\ ReturnedFromStrip
    /\ menu_strip.target_at = menu_strip.opens_at - 1
    /\ ret.action_success = 0 - 1
    /\ Len(inputs) = 1 + 2 * MENU_NAV_MAX_STEPS

====
